---- MODULE Spec2Model ----
(***************************************************************************)
(* Verification model of mini-ai-1c (tauri-app/src-tauri/src).             *)
(*                                                                         *)
(* Three components are modelled, each with its own specification:         *)
(*   SpecAgg   the streaming aggregator, ai_client.rs stream_chat_completion*)
(*   SpecChat  the orchestrator loop, commands.rs stream_chat              *)
(*   SpecLsp   the BSL language server client, bsl_client.rs BSLClient     *)
(* The variables of the components that a specification does not move stay *)
(* at their initial values.                                                *)
(***************************************************************************)
EXTENDS Integers, Sequences, FiniteSets, TLC

VARIABLES
    \* ---- ai_client.rs stream_chat_completion
    stream,                 \* the bytes of the HTTP response body, in order
    fed,                    \* how many of them bytes_stream() has yielded
    buffer,                 \* ai_client.rs:363
    full_content,           \* ai_client.rs:364
    accumulated_tool_calls, \* ai_client.rs:365
    is_thinking,            \* ai_client.rs:367
    announced_tool_calls,   \* ai_client.rs:366
    aggResult,              \* the Result<ApiMessage, String> returned, or NoResult
    decoded,                \* the text pushed to buffer so far, chunk after chunk
    thinking_emitted,       \* the text emitted as 'chat-thinking-chunk' events, in order
    started_emitted,        \* the indices of the 'tool-call-started' events, in order
    \* ---- commands.rs stream_chat, approve_tool, reject_tool
    chatPc,                 \* where the run of stream_chat stands
    current_iteration,      \* commands.rs:235
    approval_tx,            \* ChatState.approval_tx: "none", "this" run's sender, a "newer" run's
    rx,                     \* the values buffered in this run's approval channel (capacity 1)
    tool_calls,             \* number of tool calls of the turn in progress (commands.rs:261)
    tool_idx,               \* the tool call the `for` of commands.rs:289 stands at
    dispatches,             \* calls of stream_chat_completion made by the run
    waiting_emitted,        \* 'waiting-for-approval' was emitted in this turn
    delivered,              \* what rx.recv() returned in this turn, if it returned
    invoked,                \* calls of McpClient::call_tool made in this turn
    invoked_total,          \* calls of McpClient::call_tool made by the run
    notice_emitted,         \* the iteration-limit notice was emitted
    validation,             \* how the validation of the turn's code blocks ended
    emitted,                \* the events emitted by the validation and after the loop
    api_messages,           \* the conversation sent at each dispatch (commands.rs:213)
    abort_handle,           \* ChatState.abort_handle (commands.rs:145)
    outer,                  \* where stream_chat is outside its spawned task
    aborted,                \* the spawned task was aborted
    stopped,                \* a stop_chat returned while the run was in progress
    stream_result,          \* what stream_chat returned
    chat_status,            \* the payload of the last 'chat-status' event
    \* ---- bsl_client.rs BSLClient and the commands that share it
    ws,                     \* BSLClient.ws is Some (bsl_client.rs:79)
    server_process,         \* BSLClient.server_process is Some (bsl_client.rs:80)
    request_id,             \* BSLClient.request_id (bsl_client.rs:81)
    capabilities,           \* BSLClient.capabilities (bsl_client.rs:82)
    client_lock,            \* holder of the Mutex<BSLClient>, 0 when free
    ws_lock,                \* holder of the Mutex around the web socket, 0 when free
    init_ok,                \* the connection in ws has answered `initialize` with a result
    max_id_sent,            \* the largest request id put on the wire so far
    id_reused,              \* some request went out with an id not above an earlier one
    unanswered,             \* ids sent on the connection in ws whose response was not read yet
    pc,                     \* per task: where it stands
    cmd,                    \* per task: the command it runs
    loc,                    \* per task: the locals of the calls in progress
    \* ---- mcp_client.rs McpManager
    sessions,               \* MCP_MANAGER.sessions: per server id the stored (config, session address)
    children,               \* the sessions whose child process is running
    handler_alive,          \* what InternalMcpHandler::is_alive answers
    mcp_op,                 \* the operation of McpManager that ran last
    new_settings,           \* the settings the last reconfigure was called with
    \* ---- commands.rs stream_chat: the execution of one approved tool call
    mcp_servers,            \* settings.mcp_servers as loaded by the run: (id, enabled) in order
    bsl_enabled,            \* settings.bsl_server.enabled
    offers,                 \* per server id: the tool names its list_tools would return
    tool_name,              \* tool_call.function.name
    all_configs,            \* the configurations the loop goes through
    cursor,                 \* how many of them the loop has passed
    listed,                 \* per configuration passed: whether list_tools gave its list
    invoked_on,             \* the position of the configuration call_tool went to, 0 if none
    called_as,              \* the name call_tool was given
    tool_result,            \* the content of the tool message, once pushed
    \* ---- the patch reconciler: reconcile(original, ai_snippet, declared_target)
    original_text,          \* the original document, as lines
    ai_text,                \* the snippet of the model, as lines
    orig_range,             \* the line range of the target in the original symbol table
    ai_range,               \* the line range of the target in the snippet's symbol table
    patched_text,           \* what reconcile returned, once it has
    \* ---- ai_client.rs stream_chat_completion: sending the request
    attempt,                \* attempt (ai_client.rs:327)
    retry_pc,               \* where the loop stands: send, sleep, response, failed
    answers,                \* what each send().await gave, in order
    slept_s,                \* the seconds slept between the attempts
    request_error,          \* the Err the function returned from the loop, if any
    \* ---- mcp_client.rs McpSession over stdio
    next_id,                \* McpSession.next_id
    pending_requests,       \* id -> the oneshot sender stored under it, named by its channel
    channel,                \* per oneshot channel: the value sent into it, if any
    rpc_pc,                 \* per caller: where its call of request() stands
    rpc_id,                 \* per caller: the id its call of request() drew
    rpc_result,             \* per caller: what its call of request() returned
    writer_alive,           \* the writer task still receives from tx
    reader_alive,           \* the reader task still reads stdout
    last_line,              \* the line of stdout the reader task read last
    routed,                 \* the lines whose result was sent into a channel, with the channel
    \* ---- history_manager.rs
    SNAPSHOTS,              \* per window: whether the map has the key, and its Vec of codes
    saved,                  \* per window: every code saved and not popped, oldest first
    saves,                  \* how many times save_snapshot ran
    hist_op,                \* the operation that ran last: its name, window and return value
    \* ---- commands.rs paste_code_to_configurator / undo_last_change
    document,               \* per window: the text get_selected_code would copy
    pastes,                 \* how many of the two commands have run
    paste_op,               \* the command that ran last: its arguments and what it returned
    \* ---- commands.rs approve_tool / reject_tool
    approve_calls,          \* how many times the two commands were called
    approve_result          \* what the last call returned

aggVars == <<stream, fed, buffer, full_content, accumulated_tool_calls,
             is_thinking, announced_tool_calls, aggResult, decoded,
             thinking_emitted, started_emitted>>

chatVars == <<chatPc, current_iteration, approval_tx, rx, tool_calls, tool_idx,
              dispatches, waiting_emitted, delivered, invoked, invoked_total,
              notice_emitted, validation, emitted, api_messages,
              abort_handle, outer, aborted, stopped, stream_result, chat_status>>

joinVars == <<abort_handle, outer, aborted, stopped, stream_result>>

stopVars == <<joinVars, chat_status>>

lspVars == <<ws, server_process, request_id, capabilities, client_lock, ws_lock,
             init_ok, max_id_sent, id_reused, unanswered, pc, cmd, loc>>

mgrVars == <<sessions, children, handler_alive, mcp_op, new_settings>>

toolVars == <<mcp_servers, bsl_enabled, offers, tool_name, all_configs, cursor,
              listed, invoked_on, called_as, tool_result>>

mergeVars == <<original_text, ai_text, orig_range, ai_range, patched_text>>

retryVars == <<attempt, retry_pc, answers, slept_s, request_error>>

rpcVars == <<next_id, pending_requests, channel, rpc_pc, rpc_id, rpc_result,
             writer_alive, reader_alive, last_line, routed>>

histVars == <<SNAPSHOTS, saved, saves, hist_op>>

pasteVars == <<document, pastes, paste_op>>

approveVars == <<approve_calls, approve_result>>

vars == <<aggVars, chatVars, lspVars, mgrVars, toolVars, mergeVars, retryVars, rpcVars, histVars, pasteVars, approveVars>>

\* Option<T>: None and Some(v)
None == [some |-> FALSE, v |-> <<>>]

Some(x) == [some |-> TRUE, v |-> x]

\* stream_chat_completion has not returned yet
NoResult == [kind |-> "none", content |-> None, tool_calls |-> None]

(***************************************************************************)
(* Sequence helpers.                                                       *)
(***************************************************************************)
Drop(s, n) == SubSeq(s, n + 1, Len(s))

Take(s, n) == SubSeq(s, 1, n)

\* str::find: the 1-based position of the first occurrence of pat in s, 0 if none
Find(s, pat) ==
    LET hits == {i \in 1..(Len(s) - Len(pat) + 1) : SubSeq(s, i, i + Len(pat) - 1) = pat}
    IN  IF hits = {} THEN 0 ELSE CHOOSE i \in hits : \A j \in hits : i <= j

StartsWith(s, pat) == Len(s) >= Len(pat) /\ Take(s, Len(pat)) = pat

EndsWith(s, pat) == Len(s) >= Len(pat) /\ Drop(s, Len(s) - Len(pat)) = pat

(***************************************************************************)
(* The streaming aggregator: ai_client.rs:362-485.                         *)
(*                                                                         *)
(* Bytes and characters are symbols.  "H" and "T" are the lead and the     *)
(* continuation byte of one two-byte UTF-8 character, which decodes to the *)
(* character "y"; "?" is U+FFFD.  "n" is the newline, "P" the line prefix  *)
(* `data: `, "D" the sentinel text `[DONE]`.  "<" "k" spell `<thinking>`   *)
(* and "<" "/" "k" spell `</thinking>`.  "t0" "u0" "t1" "u1" are tool-call *)
(* fragments of a delta payload; "X" is text that is not JSON.             *)
(***************************************************************************)
START_TAG == <<"<", "k">>

END_TAG == <<"<", "/", "k">>

ContentChars == {"a", "y", "?", "<", "/", "k"}

ToolTokens == {"t0", "u0", "t1", "u1", "tn"}

\* index: Option<usize> of a ToolCallDelta (ai_client.rs:86)
NoIndex == [some |-> FALSE, v |-> 0]

Index(i) == [some |-> TRUE, v |-> i]

\* ToolCallDelta (ai_client.rs:85-97) of a fragment symbol; "tn" has no index
ToolFrag(tok) ==
    CASE tok = "t0" -> [index |-> Index(0), id |-> <<"i">>, name |-> <<"f">>, arguments |-> <<>>]
      [] tok = "u0" -> [index |-> Index(0), id |-> <<>>, name |-> <<>>, arguments |-> <<"x">>]
      [] tok = "t1" -> [index |-> Index(1), id |-> <<"j">>, name |-> <<"g">>, arguments |-> <<>>]
      [] tok = "u1" -> [index |-> Index(1), id |-> <<>>, name |-> <<>>, arguments |-> <<"z">>]
      [] tok = "tn" -> [index |-> NoIndex, id |-> <<"m">>, name |-> <<>>, arguments |-> <<"w">>]

\* String::from_utf8_lossy of one chunk (ai_client.rs:371): a lead byte with
\* its continuation byte is one character; a lead byte without it, or a
\* continuation byte without a lead byte, becomes U+FFFD.
RECURSIVE LossyDecode(_)
LossyDecode(bytes) ==
    IF bytes = <<>> THEN <<>>
    ELSE IF Head(bytes) = "H"
         THEN IF Len(bytes) >= 2 /\ bytes[2] = "T"
              THEN <<"y">> \o LossyDecode(Drop(bytes, 2))
              ELSE <<"?">> \o LossyDecode(Tail(bytes))
    ELSE IF Head(bytes) = "T"
         THEN <<"?">> \o LossyDecode(Tail(bytes))
    ELSE <<Head(bytes)>> \o LossyDecode(Tail(bytes))

\* str::lines (ai_client.rs:378): split at newlines, no trailing empty line
RECURSIVE Lines(_)
Lines(s) ==
    IF s = <<>> THEN <<>>
    ELSE LET p == Find(s, <<"n">>)
         IN  IF p = 0 THEN <<s>>
             ELSE <<Take(s, p - 1)>> \o Lines(Drop(s, p))

\* serde_json::from_str::<StreamChunk> (ai_client.rs:390) succeeds
ParsesAsDelta(data) ==
    /\ data # <<>>
    /\ \A i \in 1..Len(data) : data[i] \in ContentChars \cup ToolTokens

DeltaContent(data) == SelectSeq(data, LAMBDA c : c \in ContentChars)

DeltaToolCalls(data) == SelectSeq(data, LAMBDA c : c \in ToolTokens)

\* The <thinking> state machine over one delta.content (ai_client.rs:393-430).
\* st is [full_content, is_thinking, thinking]; thinking is the text emitted
\* on the thinking channel, which is not kept in the message.
RECURSIVE ApplyContent(_, _)
ApplyContent(st, current_content) ==
    IF current_content = <<>> THEN st
    ELSE IF ~st.is_thinking
    THEN LET start_pos == Find(current_content, START_TAG)
         IN  IF start_pos # 0
             THEN ApplyContent(
                    [st EXCEPT !.full_content = @ \o Take(current_content, start_pos - 1),
                               !.is_thinking = TRUE],
                    Drop(current_content, start_pos - 1 + Len(START_TAG)))
             ELSE [st EXCEPT !.full_content = @ \o current_content]
    ELSE LET end_pos == Find(current_content, END_TAG)
         IN  IF end_pos # 0
             THEN ApplyContent(
                    [st EXCEPT !.thinking = @ \o Take(current_content, end_pos - 1),
                               !.is_thinking = FALSE],
                    Drop(current_content, end_pos - 1 + Len(END_TAG)))
             ELSE [st EXCEPT !.thinking = @ \o current_content]

EmptyToolCall == [id |-> <<>>, name |-> <<>>, arguments |-> <<>>]

\* while accumulated_tool_calls.len() <= idx { push(empty) } (ai_client.rs:437-443)
RECURSIVE PadTo(_, _)
PadTo(calls, idx) ==
    IF Len(calls) <= idx THEN PadTo(Append(calls, EmptyToolCall), idx) ELSE calls

\* tc_delta.index.unwrap_or(0) (ai_client.rs:435)
UnwrapOr0(index) == IF index.some THEN index.v ELSE 0

\* ApplyToolDelta keyed by arrival: the fragment extends the newest
\* accumulator, whatever its index.
ApplyToolDeltaToLast(calls, tc_delta) ==
    LET padded == PadTo(calls, UnwrapOr0(tc_delta.index))
    IN  [padded EXCEPT ![Len(padded)] =
            [id        |-> @.id \o tc_delta.id,
             name      |-> @.name \o tc_delta.name,
             arguments |-> @.arguments \o tc_delta.arguments]]

\* One ToolCallDelta applied to the accumulators (ai_client.rs:434-459)
ApplyToolDelta(calls, tc_delta) ==
    LET idx    == UnwrapOr0(tc_delta.index)
        padded == PadTo(calls, idx)
    IN  [padded EXCEPT ![idx + 1] =
            [id        |-> @.id \o tc_delta.id,
             name      |-> @.name \o tc_delta.name,
             arguments |-> @.arguments \o tc_delta.arguments]]

\* Announce without the announced set: every fragment of a named accumulator
\* emits the event.
AnnounceEveryFragment(acc, idx) ==
    LET tc == acc.calls[idx + 1]
    IN  IF tc.id # <<>> \/ tc.name # <<>>
        THEN [acc EXCEPT !.announced = @ \cup {idx}, !.started = Append(@, idx)]
        ELSE acc

\* 'tool-call-started' for index idx (ai_client.rs:461-469).  acc is
\* [calls, announced, started].
Announce(acc, idx) ==
    LET tc == acc.calls[idx + 1]
    IN  IF idx \notin acc.announced /\ (tc.id # <<>> \/ tc.name # <<>>)
        THEN [acc EXCEPT !.announced = @ \cup {idx}, !.started = Append(@, idx)]
        ELSE acc

\* for tc_delta in tool_calls (ai_client.rs:433-471)
RECURSIVE ApplyToolCalls(_, _)
ApplyToolCalls(acc, toks) ==
    IF toks = <<>> THEN acc
    ELSE LET tc_delta == ToolFrag(Head(toks))
         IN  ApplyToolCalls(
                Announce([acc EXCEPT !.calls = ApplyToolDelta(@, tc_delta)],
                         UnwrapOr0(tc_delta.index)),
                Tail(toks))

\* The ApiMessage built at ai_client.rs:381-387 and 479-485
AssistantMessage(content, calls) ==
    [kind       |-> "ok",
     content    |-> IF content = <<>> THEN None ELSE Some(content),
     tool_calls |-> IF calls = <<>> THEN None ELSE Some(calls)]

\* ProcessLine with a payload that does not parse ending the turn with an
\* error.
ProcessLineStrict(st, line) ==
    IF st.result # NoResult \/ ~StartsWith(line, <<"P">>) THEN st
    ELSE LET data == Tail(line)
         IN  IF data = <<"D">>
             THEN [st EXCEPT !.result = AssistantMessage(st.full_content, st.calls)]
             ELSE IF ParsesAsDelta(data)
             THEN LET c == ApplyContent([full_content |-> st.full_content,
                                         is_thinking  |-> st.is_thinking,
                                         thinking     |-> st.thinking],
                                        DeltaContent(data))
                      a == ApplyToolCalls([calls     |-> st.calls,
                                           announced |-> st.announced,
                                           started   |-> st.started],
                                          DeltaToolCalls(data))
                  IN  [st EXCEPT !.full_content = c.full_content,
                                 !.is_thinking = c.is_thinking,
                                 !.thinking = c.thinking,
                                 !.calls = a.calls,
                                 !.announced = a.announced,
                                 !.started = a.started]
             ELSE [st EXCEPT !.result = [kind |-> "err", content |-> None,
                                         tool_calls |-> None]]

\* ProcessLine without the return at the sentinel: the lines after it in the
\* event still reach the message.
ProcessLineNoReturn(st, line) ==
    IF ~StartsWith(line, <<"P">>) THEN st
    ELSE LET data == Tail(line)
         IN  IF data = <<"D">>
             THEN [st EXCEPT !.result = AssistantMessage(st.full_content, st.calls)]
             ELSE IF ParsesAsDelta(data)
             THEN LET c == ApplyContent([full_content |-> st.full_content,
                                         is_thinking  |-> st.is_thinking,
                                         thinking     |-> st.thinking],
                                        DeltaContent(data))
                      a == ApplyToolCalls([calls     |-> st.calls,
                                           announced |-> st.announced,
                                           started   |-> st.started],
                                          DeltaToolCalls(data))
                  IN  [st EXCEPT !.full_content = c.full_content,
                                 !.is_thinking = c.is_thinking,
                                 !.thinking = c.thinking,
                                 !.calls = a.calls,
                                 !.announced = a.announced,
                                 !.started = a.started,
                                 !.result = IF @ = NoResult THEN @
                                            ELSE AssistantMessage(c.full_content, a.calls)]
             ELSE st

\* One line of an event (ai_client.rs:378-474).  st is the aggregator state
\* [buffer, full_content, calls, is_thinking, announced, result, thinking,
\* started].
ProcessLine(st, line) ==
    IF st.result # NoResult \/ ~StartsWith(line, <<"P">>) THEN st
    ELSE LET data == Tail(line)
         IN  IF data = <<"D">>
             THEN [st EXCEPT !.result = AssistantMessage(st.full_content, st.calls)]
             ELSE IF ParsesAsDelta(data)
             THEN LET c == ApplyContent([full_content |-> st.full_content,
                                         is_thinking  |-> st.is_thinking,
                                         thinking     |-> st.thinking],
                                        DeltaContent(data))
                      a == ApplyToolCalls([calls     |-> st.calls,
                                           announced |-> st.announced,
                                           started   |-> st.started],
                                          DeltaToolCalls(data))
                  IN  [st EXCEPT !.full_content = c.full_content,
                                 !.is_thinking = c.is_thinking,
                                 !.thinking = c.thinking,
                                 !.calls = a.calls,
                                 !.announced = a.announced,
                                 !.started = a.started]
             ELSE st

RECURSIVE ProcessLines(_, _)
ProcessLines(st, lines) ==
    IF lines = <<>> THEN st
    ELSE ProcessLines(ProcessLine(st, Head(lines)), Tail(lines))

\* DrainEvents with `if let` for `while let`: one event per chunk.
DrainOneEvent(st) ==
    LET pos == Find(st.buffer, <<"n", "n">>)
    IN  IF st.result # NoResult \/ pos = 0 THEN st
        ELSE ProcessLines([st EXCEPT !.buffer = Drop(@, pos + 1)],
                          Lines(Take(st.buffer, pos - 1)))

\* while let Some(pos) = buffer.find("\n\n") (ai_client.rs:374-476)
RECURSIVE DrainEvents(_)
DrainEvents(st) ==
    LET pos == Find(st.buffer, <<"n", "n">>)
    IN  IF st.result # NoResult \/ pos = 0 THEN st
        ELSE DrainEvents(ProcessLines([st EXCEPT !.buffer = Drop(@, pos + 1)],
                                      Lines(Take(st.buffer, pos - 1))))

\* The body of `while let Some(chunk_result) = stream.next().await` for one
\* chunk that arrived without error (ai_client.rs:369-477)
ConsumeChunk(st, chunk) ==
    DrainEvents([st EXCEPT !.buffer = @ \o LossyDecode(chunk)])

AggStart ==
    [buffer |-> <<>>, full_content |-> <<>>, calls |-> <<>>,
     is_thinking |-> FALSE, announced |-> {}, result |-> NoResult,
     thinking |-> <<>>, started |-> <<>>]

\* The message returned when the whole body arrives as one chunk
FedWhole(bytes) ==
    LET st == ConsumeChunk(AggStart, bytes)
    IN  IF st.result # NoResult THEN st.result
        ELSE AssistantMessage(st.full_content, st.calls)

AggState ==
    [buffer |-> buffer, full_content |-> full_content,
     calls |-> accumulated_tool_calls, is_thinking |-> is_thinking,
     announced |-> announced_tool_calls, result |-> aggResult,
     thinking |-> thinking_emitted, started |-> started_emitted]

(***************************************************************************)
(* The orchestrator: commands.rs stream_chat (194-494), approve_tool       *)
(* (166-176), reject_tool (180-190).                                       *)
(***************************************************************************)
MAX_ITERATIONS == 7

MaxToolCalls == 2

\* no recv() of this turn has returned
NotDelivered == [some |-> FALSE, v |-> FALSE, after_request |-> FALSE]

ChatStill ==
    /\ chatPc = "not_started"
    /\ current_iteration = 0
    /\ approval_tx = "none"
    /\ rx = <<>>
    /\ tool_calls = 0
    /\ tool_idx = 0
    /\ dispatches = 0
    /\ waiting_emitted = FALSE
    /\ delivered = NotDelivered
    /\ invoked = 0
    /\ invoked_total = 0
    /\ notice_emitted = FALSE
    /\ validation = "none"
    /\ emitted = {}
    /\ api_messages = <<>>
    /\ abort_handle = "none"
    /\ outer = "not_started"
    /\ aborted = FALSE
    /\ stopped = FALSE
    /\ stream_result = "none"
    /\ chat_status = "none"

(***************************************************************************)
(* The BSL language server client: bsl_client.rs BSLClient, and the        *)
(* commands that share one client behind Arc<Mutex<BSLClient>>:            *)
(* analyze_bsl, format_bsl, the validation step of stream_chat,            *)
(* BSLMcpHandler::call_tool, reconnect_bsl_ls_cmd, McpManager::reconfigure.*)
(* Each task runs one command.                                             *)
(***************************************************************************)
NumTasks == 2

Tasks == 1..NumTasks

Commands ==
    {"analyze_bsl", "format_bsl", "validate", "check_syntax", "reconnect", "reconfigure"}

max_retries == 30

REFUSED_DELAY_MS == 500

HANDSHAKE_DELAY_MS == 500

request_timeout == 15

MESSAGE_WAIT_S == 5

\* The id member of a JSON-RPC message: absent, a number, or a string
NoId == [t |-> "none", n |-> 0]

IntId(n) == [t |-> "int", n |-> n]

StrId(n) == [t |-> "str", n |-> n]

\* URIs are strings of characters; the document analyze_code opens
OpenedUri == <<"/", "f">>

\* URIs a publishDiagnostics notification may name: the opened one, another
\* file, a file of the same name elsewhere, a file whose name ends alike
NotifUris == {<<"/", "f">>, <<"/", "g">>, <<"/", "d", "/", "f">>, <<"/", "g", "f">>}

NoMethod == "-"

Message(json, method, id, error, body, uri, diags) ==
    [json |-> json, method |-> method, id |-> id, error |-> error, body |-> body,
     uri |-> uri, diags |-> diags]

\* The text messages the server may deliver while request n is the latest:
\* responses to it, to the one before and to one not yet sent; requests of
\* its own with a numeric or a string id; notifications; text that is not JSON
Incoming(n) ==
    { Message(TRUE, NoMethod, IntId(i), e, b, <<>>, "none") :
        i \in {n - 1, n, n + 1} \ {0}, e \in BOOLEAN, b \in {"a", "b"} }
    \cup
    { Message(TRUE, m, i, FALSE, "b", <<>>, "none") :
        m \in {"workspace/configuration", "client/registerCapability", "other"},
        i \in {IntId(n), IntId(n + 1), StrId(1)} }
    \cup
    { Message(TRUE, "textDocument/publishDiagnostics", NoId, FALSE, "b", u, d) :
        u \in NotifUris, d \in {"empty", "some"} }
    \cup
    { Message(TRUE, "window/logMessage", NoId, FALSE, "b", <<>>, "none"),
      Message(FALSE, NoMethod, NoId, FALSE, "b", <<>>, "none") }

\* serde_json::from_str::<JsonRpcResponse> succeeds (bsl_client.rs:31-42, 409):
\* the text is a JSON object and its id, when present, is an i32
ParsesAsJsonRpc(m) == m.json /\ m.id.t # "str"

\* response.method.is_some() && response.id.is_some() (bsl_client.rs:411)
IsServerRequest(m) == ParsesAsJsonRpc(m) /\ m.method # NoMethod /\ m.id.t = "int"

\* The id test left out: any response is taken
IsAnyResponse(m, id) == ParsesAsJsonRpc(m) /\ m.id.t = "int"

\* response.id == Some(id) (bsl_client.rs:419)
IsResponseTo(m, id) == ParsesAsJsonRpc(m) /\ m.id = IntId(id)

\* handle_server_request (bsl_client.rs:353-378): the id of the response it
\* sends; every arm of the match sends one
handle_server_request(method, id) ==
    CASE method = "workspace/configuration" -> id
      [] method = "client/registerCapability" -> id
      [] OTHER -> id

\* uri.split('/').last() (bsl_client.rs:548)
FileName(uri) ==
    LET slashes == {i \in 1..Len(uri) : uri[i] = "/"}
    IN  IF slashes = {} THEN uri
        ELSE Drop(uri, CHOOSE i \in slashes : \A j \in slashes : j <= i)

\* The URI test left out: every publishDiagnostics is taken
UriMatchesAny(diag_uri, uri) == TRUE

\* diag_uri == uri || diag_uri.ends_with(filename) (bsl_client.rs:550)
UriMatches(diag_uri, uri) == diag_uri = uri \/ EndsWith(diag_uri, FileName(uri))

\* The publishDiagnostics notification the push loop accepts (bsl_client.rs:539-550)
IsOurDiagnostics(m, uri) ==
    /\ ParsesAsJsonRpc(m)
    /\ ~IsServerRequest(m)
    /\ m.method = "textDocument/publishDiagnostics"
    /\ UriMatches(m.uri, uri)

\* self.request_id.fetch_add(1, SeqCst) (bsl_client.rs:385): the value after it
NextRequestId(id) == id + 1

\* capabilities.get("diagnosticProvider").is_some() (bsl_client.rs:483-485)
SupportsPull(caps) == caps = "a"

\* the formatting guard (bsl_client.rs:629-632)
CanFormat(caps) == caps = "a"

NoOutcome == [kind |-> "none", diags |-> "none"]

Ok(diags) == [kind |-> "ok", diags |-> diags]

Err == [kind |-> "err", diags |-> "none"]

FreshLoc ==
    [ \* connect()
      retries |-> 0, attempts |-> 0, delays |-> {}, ws_before |-> FALSE,
      conn_ok |-> FALSE, conn_cause |-> "none", second |-> FALSE,
      \* send_request()
      caller |-> "none", id |-> 0, elapsed |-> 0, srv |-> NoId, owed |-> NoId,
      sr_ok |-> FALSE, sr_body |-> "b", cause |-> "none", from |-> NoId,
      from_method |-> NoMethod, stale |-> FALSE,
      \* analyze_code()
      opened |-> FALSE, closes |-> 0, has_items |-> FALSE, push |-> FALSE,
      seen_exact |-> FALSE, seen_match |-> FALSE, ignored |-> FALSE,
      push_cause |-> "none",
      result |-> NoOutcome ]

LspStill ==
    /\ ws = FALSE
    /\ server_process = FALSE
    /\ request_id = 1
    /\ capabilities = "none"
    /\ client_lock = 0
    /\ ws_lock = 0
    /\ init_ok = FALSE
    /\ max_id_sent = 0
    /\ id_reused = FALSE
    /\ unanswered = {}
    /\ pc = [t \in Tasks |-> "idle"]
    /\ cmd = [t \in Tasks |-> "none"]
    /\ loc = [t \in Tasks |-> FreshLoc]

\* A lock that never waits
CanLockAlways(holder) == TRUE

\* tokio::sync::Mutex::lock completes: the mutex is free
CanLock(holder) == holder = 0

Goto(t, p) == pc' = [pc EXCEPT ![t] = p]

Upd(t, r) == loc' = [loc EXCEPT ![t] = r]

\* The locals of a fresh call of connect() (bsl_client.rs:185-194)
ConnectFrame(l, w) ==
    [l EXCEPT !.retries = 0, !.attempts = 0, !.delays = {}, !.ws_before = w,
              !.conn_ok = FALSE, !.conn_cause = "none"]

\* state.lock().await and the synchronous code after it, up to the first await:
\* analyze_bsl (commands.rs:513-520), format_bsl (553-558), the validation of
\* stream_chat (378-381), call_tool (bsl_client.rs:898-903),
\* reconnect_bsl_ls_cmd (commands.rs:887-893), reconfigure (mcp_client.rs:186-196).
\* c: the command; started: start_server() succeeds; enabled, jar: the
\* settings reconfigure reads.
Enter(t, c, started, enabled, jar) ==
    /\ pc[t] = "idle"
    /\ \A u \in Tasks : u < t => pc[u] # "idle"    \* tasks are numbered as they enter
    /\ CanLock(client_lock)
    /\ cmd' = [cmd EXCEPT ![t] = c]
    /\ UNCHANGED <<request_id, capabilities, ws_lock, max_id_sent, id_reused>>
    /\ CASE c \in {"analyze_bsl", "validate", "check_syntax", "format_bsl"} ->
              /\ client_lock' = t
              /\ UNCHANGED <<ws, server_process, init_ok>>
              /\ IF ~ws
                 THEN Goto(t, "connect") /\ Upd(t, ConnectFrame(loc[t], ws))
                 ELSE /\ Goto(t, IF c = "format_bsl" THEN "fmt_open" ELSE "an_open")
                      /\ UNCHANGED loc
         [] c = "reconnect" ->
              \* client.stop(); client.start_server()?;
              /\ ws' = IF server_process THEN FALSE ELSE ws
              /\ init_ok' = IF server_process THEN FALSE ELSE init_ok
              /\ IF started
                 THEN /\ server_process' = TRUE
                      /\ client_lock' = 0
                      /\ Goto(t, "reconnect_sleep")
                      /\ UNCHANGED loc
                 ELSE /\ server_process' = FALSE
                      /\ client_lock' = t
                      /\ Goto(t, "ret")
                      /\ Upd(t, [loc[t] EXCEPT !.result = Err])
         [] c = "reconfigure" ->
              /\ client_lock' = t
              /\ IF enabled
                 THEN IF jar /\ ~ws
                      THEN /\ server_process' = (started \/ server_process)
                           /\ UNCHANGED <<ws, init_ok>>
                           /\ Goto(t, "connect")
                           /\ Upd(t, ConnectFrame(loc[t], ws))
                      ELSE /\ UNCHANGED <<ws, server_process, init_ok>>
                           /\ Goto(t, "ret")
                           /\ Upd(t, [loc[t] EXCEPT !.result = Ok("none")])
                 ELSE \* bsl.stop()
                      /\ ws' = IF server_process THEN FALSE ELSE ws
                      /\ init_ok' = IF server_process THEN FALSE ELSE init_ok
                      /\ server_process' = FALSE
                      /\ Goto(t, "ret")
                      /\ Upd(t, [loc[t] EXCEPT !.result = Ok("none")])
    /\ unanswered' = IF ws' THEN unanswered ELSE {}

\* reconnect_bsl_ls_cmd after its sleep: lock again, then connect (commands.rs:895-900)
Relock(t) ==
    /\ pc[t] = "reconnect_sleep"
    /\ CanLock(client_lock)
    /\ client_lock' = t
    /\ Goto(t, "connect")
    /\ Upd(t, ConnectFrame(loc[t], ws))
    /\ UNCHANGED <<ws, server_process, request_id, capabilities, ws_lock, init_ok,
                   max_id_sent, id_reused, unanswered, cmd>>

\* `>` written for `>=`
RetriesExhaustedLate(retries) == retries > max_retries

\* retries >= max_retries (bsl_client.rs:211, 223)
RetriesExhausted(retries) == retries >= max_retries

\* One pass of the loop of connect (bsl_client.rs:196-229).  outcome is what
\* timeout(3s, connect_async) gave.
ConnectAttempt(t, outcome) ==
    /\ pc[t] = "connect"
    /\ LET l == [loc[t] EXCEPT !.attempts = @ + 1]
       IN  IF outcome = "connected"
           THEN /\ ws' = TRUE
                /\ ws_lock' = 0
                /\ init_ok' = FALSE
                /\ unanswered' = {}
                /\ Goto(t, "init_begin")
                /\ Upd(t, l)
           ELSE /\ UNCHANGED <<ws, ws_lock, init_ok, unanswered>>
                /\ IF RetriesExhausted(l.retries + 1)
                   THEN /\ Goto(t, "connect_ret")
                        /\ Upd(t, [l EXCEPT !.retries = @ + 1, !.conn_ok = FALSE,
                                            !.conn_cause = "exhausted"])
                   ELSE /\ Goto(t, "connect")
                        /\ Upd(t, [l EXCEPT !.retries = @ + 1,
                                     !.delays = @ \cup {IF outcome = "refused"
                                                        THEN REFUSED_DELAY_MS
                                                        ELSE HANDSHAKE_DELAY_MS}])
    /\ UNCHANGED <<server_process, request_id, capabilities, client_lock,
                   max_id_sent, id_reused, cmd>>

\* connect after the loop: the loop's locals are dead, the workspace is
\* prepared and `initialize` is requested (bsl_client.rs:231-287)
BeginInitialize(t) ==
    /\ pc[t] = "init_begin"
    /\ Goto(t, "sr_send")
    /\ Upd(t, [loc[t] EXCEPT !.retries = 0, !.attempts = 0, !.delays = {},
                             !.caller = "initialize"])
    /\ UNCHANGED <<ws, server_process, request_id, capabilities, client_lock, ws_lock,
                   init_ok, max_id_sent, id_reused, unanswered, cmd>>

\* connect() has returned: its frame is gone
PopConnect(l) ==
    [l EXCEPT !.retries = 0, !.attempts = 0, !.delays = {}, !.ws_before = FALSE,
              !.conn_ok = FALSE, !.conn_cause = "none"]

\* What the caller of connect() does with its result: analyze_bsl
\* (commands.rs:516-529), format_bsl (556-561), validation (379-388), call_tool
\* (bsl_client.rs:901-913), reconnect_bsl_ls_cmd (commands.rs:900-902),
\* reconfigure (mcp_client.rs:191-192)
AfterConnect(t, started) ==
    /\ pc[t] = "connect_ret"
    /\ UNCHANGED <<ws, request_id, capabilities, client_lock, ws_lock, init_ok,
                   max_id_sent, id_reused, unanswered, cmd>>
    /\ CASE cmd[t] \in {"analyze_bsl", "validate"} ->
              Goto(t, "an_open") /\ Upd(t, PopConnect(loc[t])) /\ UNCHANGED server_process
         [] cmd[t] = "format_bsl" ->
              Goto(t, "fmt_open") /\ Upd(t, PopConnect(loc[t])) /\ UNCHANGED server_process
         [] cmd[t] = "check_syntax" ->
              IF loc[t].conn_ok
              THEN Goto(t, "an_open") /\ Upd(t, PopConnect(loc[t])) /\ UNCHANGED server_process
              ELSE IF loc[t].second \/ (~server_process /\ ~started)
              THEN /\ Goto(t, "ret")
                   /\ Upd(t, [PopConnect(loc[t]) EXCEPT !.result = Err])
                   /\ UNCHANGED server_process
              ELSE /\ server_process' = TRUE
                   /\ Goto(t, "connect")
                   /\ Upd(t, [ConnectFrame(loc[t], ws) EXCEPT !.second = TRUE])
         [] cmd[t] = "reconnect" ->
              /\ Goto(t, "ret")
              /\ Upd(t, [PopConnect(loc[t]) EXCEPT !.result = IF loc[t].conn_ok THEN Ok("none") ELSE Err])
              /\ UNCHANGED server_process
         [] cmd[t] = "reconfigure" ->
              /\ Goto(t, "ret")
              /\ Upd(t, [PopConnect(loc[t]) EXCEPT !.result = Ok("none")])
              /\ UNCHANGED server_process

\* send_request up to the wait (bsl_client.rs:381-401).  sent: ws.send succeeds.
SendRequest(t, sent) ==
    /\ pc[t] = "sr_send"
    /\ UNCHANGED <<ws, server_process, capabilities, client_lock, init_ok, cmd>>
    /\ IF ~ws
       THEN /\ Goto(t, "sr_ret")
            /\ Upd(t, [loc[t] EXCEPT !.sr_ok = FALSE, !.cause = "not_connected",
                                     !.from = NoId, !.from_method = NoMethod])
            /\ UNCHANGED <<request_id, ws_lock, max_id_sent, id_reused, unanswered>>
       ELSE /\ CanLock(ws_lock)
            /\ request_id' = NextRequestId(request_id)
            /\ id_reused' = (id_reused \/ request_id <= max_id_sent)
            /\ max_id_sent' = IF request_id > max_id_sent THEN request_id ELSE max_id_sent
            /\ IF sent
               THEN /\ ws_lock' = t
                    /\ unanswered' = unanswered \cup {request_id}
                    /\ Goto(t, "sr_wait")
                    /\ Upd(t, [loc[t] EXCEPT !.id = request_id, !.elapsed = 0,
                                 !.srv = NoId, !.owed = NoId, !.cause = "none",
                                 !.from = NoId, !.from_method = NoMethod,
                                 !.stale = FALSE])
               ELSE /\ ws_lock' = 0
                    /\ UNCHANGED unanswered
                    /\ Goto(t, "sr_ret")
                    /\ Upd(t, [loc[t] EXCEPT !.id = request_id, !.sr_ok = FALSE,
                                 !.cause = "send_failed", !.from = NoId,
                                 !.from_method = NoMethod])

\* The request ids a message read off the wire answers: it is a JSON-RPC
\* response (an id, no method)
Answered(m) == IF m.json /\ m.method = NoMethod /\ m.id.t = "int" THEN {m.id.n} ELSE {}

\* JSON-RPC 2.0: a message with a method and an id, number or string, is a request
IsRequestOnWire(m) == m.json /\ m.method # NoMethod /\ m.id.t # "none"

\* ws.next() yields a text message inside the wait of send_request
\* (bsl_client.rs:403-427); it took d seconds to arrive
SrRead(t, m, d) ==
    /\ pc[t] = "sr_wait"
    /\ loc[t].elapsed < request_timeout
    /\ LET l == [loc[t] EXCEPT
                    !.elapsed = @ + d,
                    !.owed = IF IsRequestOnWire(m) THEN m.id ELSE @,
                    !.stale = @ \/ (Answered(m) # {} /\ m.id.n < loc[t].id)]
       IN  IF IsServerRequest(m)
           THEN /\ Goto(t, "sr_reply")
                /\ Upd(t, [l EXCEPT !.srv = IntId(handle_server_request(m.method, m.id.n))])
                /\ UNCHANGED ws_lock
           ELSE IF IsResponseTo(m, l.id)
           THEN /\ Goto(t, "sr_ret")
                /\ Upd(t, [l EXCEPT !.sr_ok = ~m.error, !.sr_body = m.body,
                                    !.cause = "response", !.from = m.id,
                                    !.from_method = m.method])
                /\ ws_lock' = 0
           ELSE /\ Goto(t, "sr_wait")
                /\ Upd(t, l)
                /\ UNCHANGED ws_lock
    /\ unanswered' = unanswered \ Answered(m)
    /\ UNCHANGED <<ws, server_process, request_id, capabilities, client_lock, init_ok,
                   max_id_sent, id_reused, cmd>>

\* send_response_raw inside handle_server_request (bsl_client.rs:341-350, 368-375);
\* a failure of the send is dropped.  back is the loop that called it.
ReplyToServer(t, at, back) ==
    /\ pc[t] = at
    /\ Goto(t, back)
    /\ Upd(t, [loc[t] EXCEPT !.srv = NoId,
                             !.owed = IF @ = loc[t].srv THEN NoId ELSE @])
    /\ UNCHANGED <<ws, server_process, request_id, capabilities, client_lock, ws_lock,
                   init_ok, max_id_sent, id_reused, unanswered, cmd>>

\* Five seconds pass without a message (bsl_client.rs:436-439)
SrTick(t) ==
    /\ pc[t] = "sr_wait"
    /\ loc[t].elapsed < request_timeout
    /\ Upd(t, [loc[t] EXCEPT !.elapsed = @ + MESSAGE_WAIT_S])
    /\ UNCHANGED <<ws, server_process, request_id, capabilities, client_lock, ws_lock,
                   init_ok, max_id_sent, id_reused, unanswered, pc, cmd>>

\* SrFail with the timeout returned after the first tick
SrFailAfterOneTick(t, how) ==
    /\ pc[t] = "sr_wait"
    /\ IF how = "timeout" THEN loc[t].elapsed >= MESSAGE_WAIT_S
                          ELSE loc[t].elapsed < request_timeout
    /\ Goto(t, "sr_ret")
    /\ Upd(t, [loc[t] EXCEPT !.sr_ok = FALSE, !.cause = how])
    /\ ws_lock' = 0
    /\ UNCHANGED <<ws, server_process, request_id, capabilities, client_lock, init_ok,
                   max_id_sent, id_reused, unanswered, cmd>>

\* The ways the wait of send_request ends without a response: a transport
\* error (bsl_client.rs:428-431), the close of the stream (432-435), the
\* request budget used up (403, 444-445)
SrFail(t, how) ==
    /\ pc[t] = "sr_wait"
    /\ IF how = "timeout" THEN loc[t].elapsed >= request_timeout
                          ELSE loc[t].elapsed < request_timeout
    /\ Goto(t, "sr_ret")
    /\ Upd(t, [loc[t] EXCEPT !.sr_ok = FALSE, !.cause = how])
    /\ ws_lock' = 0
    /\ UNCHANGED <<ws, server_process, request_id, capabilities, client_lock, init_ok,
                   max_id_sent, id_reused, unanswered, cmd>>

\* send_request has returned: its frame is gone
PopRequest(l) ==
    [l EXCEPT !.caller = "none", !.id = 0, !.elapsed = 0, !.srv = NoId, !.owed = NoId,
              !.sr_ok = FALSE, !.sr_body = "b", !.cause = "none", !.from = NoId,
              !.from_method = NoMethod, !.stale = FALSE]

\* What the caller of send_request does with its result: connect
\* (bsl_client.rs:278-291), analyze_code (489-493), format_code (649-657)
AfterRequest(t) ==
    /\ pc[t] = "sr_ret"
    /\ UNCHANGED <<ws, server_process, request_id, client_lock, ws_lock,
                   max_id_sent, id_reused, unanswered, cmd>>
    /\ CASE loc[t].caller = "initialize" ->
              IF loc[t].sr_ok
              THEN /\ capabilities' = loc[t].sr_body
                   /\ init_ok' = TRUE
                   /\ Goto(t, "init_notify")
                   /\ Upd(t, PopRequest(loc[t]))
              ELSE /\ Goto(t, "connect_ret")
                   /\ Upd(t, [PopRequest(loc[t]) EXCEPT !.conn_ok = FALSE, !.conn_cause = "initialize"])
                   /\ UNCHANGED <<capabilities, init_ok>>
         [] loc[t].caller = "diagnostic" ->
              /\ UNCHANGED <<capabilities, init_ok>>
              /\ IF loc[t].sr_ok
                 THEN /\ Goto(t, "an_close_pull")
                      /\ Upd(t, [PopRequest(loc[t]) EXCEPT !.has_items = (loc[t].sr_body = "a")])
                 ELSE /\ Goto(t, "ret")
                      /\ Upd(t, [PopRequest(loc[t]) EXCEPT !.result = Err])
         [] loc[t].caller = "formatting" ->
              /\ UNCHANGED <<capabilities, init_ok>>
              /\ IF loc[t].sr_ok
                 THEN Goto(t, "fmt_close") /\ Upd(t, PopRequest(loc[t]))
                 ELSE Goto(t, "ret") /\ Upd(t, [PopRequest(loc[t]) EXCEPT !.result = Err])

\* connect after initialize: lock ws, send `initialized` (bsl_client.rs:294-307)
InitNotify(t, sent) ==
    /\ pc[t] = "init_notify"
    /\ CanLock(ws_lock)
    /\ IF sent
       THEN /\ ws_lock' = t
            /\ Goto(t, "drain")
            /\ UNCHANGED loc
       ELSE /\ ws_lock' = 0
            /\ Goto(t, "connect_ret")
            /\ Upd(t, [loc[t] EXCEPT !.conn_ok = FALSE, !.conn_cause = "initialized"])
    /\ UNCHANGED <<ws, server_process, request_id, capabilities, client_lock, init_ok,
                   max_id_sent, id_reused, unanswered, cmd>>

\* A message read by the drain loop (bsl_client.rs:313-331)
DrainRead(t, m) ==
    /\ pc[t] = "drain"
    /\ IF IsServerRequest(m)
       THEN /\ Goto(t, "drain_reply")
            /\ Upd(t, [loc[t] EXCEPT !.srv = IntId(handle_server_request(m.method, m.id.n)),
                                     !.owed = m.id])
       ELSE /\ Goto(t, "drain")
            /\ Upd(t, [loc[t] EXCEPT !.owed = IF IsRequestOnWire(m) THEN m.id ELSE @])
    /\ unanswered' = unanswered \ Answered(m)
    /\ UNCHANGED <<ws, server_process, request_id, capabilities, client_lock, ws_lock,
                   init_ok, max_id_sent, id_reused, cmd>>

\* drain_timeout fires: connect returns Ok (bsl_client.rs:332, 337)
DrainTimeout(t) ==
    /\ pc[t] = "drain"
    /\ ws_lock' = 0
    /\ Goto(t, "connect_ret")
    /\ Upd(t, [loc[t] EXCEPT !.conn_ok = TRUE, !.conn_cause = "ok"])
    /\ UNCHANGED <<ws, server_process, request_id, capabilities, client_lock, init_ok,
                   max_id_sent, id_reused, unanswered, cmd>>

\* analyze_code: didOpen, then the choice of strategy (bsl_client.rs:473-487)
AnOpen(t, sent) ==
    /\ pc[t] = "an_open"
    /\ IF ~ws \/ ~sent
       THEN /\ Goto(t, "ret")
            /\ Upd(t, [loc[t] EXCEPT !.result = Err])
       ELSE /\ CanLock(ws_lock)
            /\ IF SupportsPull(capabilities)
               THEN /\ Goto(t, "sr_send")
                    /\ Upd(t, [loc[t] EXCEPT !.opened = TRUE, !.caller = "diagnostic"])
               ELSE /\ Goto(t, "push_lock")
                    /\ Upd(t, [loc[t] EXCEPT !.opened = TRUE])
    /\ UNCHANGED <<ws, server_process, request_id, capabilities, client_lock, ws_lock,
                   init_ok, max_id_sent, id_reused, unanswered, cmd>>

\* analyze_code after the pull request answered: didClose, then the items
\* (bsl_client.rs:496-512)
AnClosePull(t, sent, diags) ==
    /\ pc[t] = "an_close_pull"
    /\ CanLock(ws_lock)
    /\ IF ~sent
       THEN /\ Goto(t, "ret")
            /\ Upd(t, [loc[t] EXCEPT !.closes = @ + 1, !.result = Err])
       ELSE IF loc[t].has_items
       THEN /\ Goto(t, "ret")
            /\ Upd(t, [loc[t] EXCEPT !.closes = @ + 1, !.result = Ok(diags)])
       ELSE /\ Goto(t, "push_lock")
            /\ Upd(t, [loc[t] EXCEPT !.closes = @ + 1])
    /\ UNCHANGED <<ws, server_process, request_id, capabilities, client_lock, ws_lock,
                   init_ok, max_id_sent, id_reused, unanswered, cmd>>

\* analyze_code locks ws for the push loop and arms the timer (bsl_client.rs:517-522)
PushLock(t) ==
    /\ pc[t] = "push_lock"
    /\ CanLock(ws_lock)
    /\ ws_lock' = t
    /\ Goto(t, "push_wait")
    /\ Upd(t, [loc[t] EXCEPT !.push = TRUE, !.seen_exact = FALSE, !.seen_match = FALSE])
    /\ UNCHANGED <<ws, server_process, request_id, capabilities, client_lock,
                   init_ok, max_id_sent, id_reused, unanswered, cmd>>

\* A message read by the push loop (bsl_client.rs:526-589)
PushRead(t, m) ==
    /\ pc[t] = "push_wait"
    /\ LET l == [loc[t] EXCEPT
                    !.owed = IF IsRequestOnWire(m) THEN m.id ELSE @,
                    !.ignored = @ \/ (m.json /\ m.uri # <<>> /\ m.uri # OpenedUri /\
                                      ~EndsWith(m.uri, <<"f">>))]
       IN  IF IsServerRequest(m)
           THEN /\ Goto(t, "push_reply")
                /\ Upd(t, [l EXCEPT !.srv = IntId(handle_server_request(m.method, m.id.n))])
                /\ UNCHANGED ws_lock
           ELSE IF IsOurDiagnostics(m, OpenedUri)
           THEN /\ Goto(t, "ret")
                /\ Upd(t, [l EXCEPT !.closes = @ + 1, !.push_cause = "diagnostics",
                                    !.seen_exact = (m.uri = OpenedUri),
                                    !.seen_match = (m.uri = OpenedUri \/
                                                    EndsWith(m.uri, <<"f">>)),
                                    !.result = Ok(m.diags)])
                /\ ws_lock' = 0
           ELSE /\ Goto(t, "push_wait")
                /\ Upd(t, l)
                /\ UNCHANGED ws_lock
    /\ unanswered' = unanswered \ Answered(m)
    /\ UNCHANGED <<ws, server_process, request_id, capabilities, client_lock,
                   init_ok, max_id_sent, id_reused, cmd>>

\* The stream fails or closes inside the push loop (bsl_client.rs:590-597)
PushFail(t, how) ==
    /\ pc[t] = "push_wait"
    /\ ws_lock' = 0
    /\ Goto(t, "ret")
    /\ Upd(t, [loc[t] EXCEPT !.push_cause = how, !.result = Err])
    /\ UNCHANGED <<ws, server_process, request_id, capabilities, client_lock,
                   init_ok, max_id_sent, id_reused, unanswered, cmd>>

\* The five seconds of the push loop are over (bsl_client.rs:603-621)
PushTimeout(t) ==
    /\ pc[t] = "push_wait"
    /\ ws_lock' = 0
    /\ Goto(t, "ret")
    /\ Upd(t, [loc[t] EXCEPT !.closes = @ + 1, !.push_cause = "timeout",
                             !.result = Ok("empty")])
    /\ UNCHANGED <<ws, server_process, request_id, capabilities, client_lock,
                   init_ok, max_id_sent, id_reused, unanswered, cmd>>

\* format_code: the guard, didOpen (bsl_client.rs:627-646)
FmtOpen(t, sent) ==
    /\ pc[t] = "fmt_open"
    /\ IF ~CanFormat(capabilities) \/ ~ws \/ ~sent
       THEN /\ Goto(t, "ret")
            /\ Upd(t, [loc[t] EXCEPT !.result = Err])
       ELSE /\ CanLock(ws_lock)
            /\ Goto(t, "sr_send")
            /\ Upd(t, [loc[t] EXCEPT !.caller = "formatting"])
    /\ UNCHANGED <<ws, server_process, request_id, capabilities, client_lock, ws_lock,
                   init_ok, max_id_sent, id_reused, unanswered, cmd>>

\* format_code: didClose, then the edits (bsl_client.rs:660-676)
FmtClose(t, sent) ==
    /\ pc[t] = "fmt_close"
    /\ CanLock(ws_lock)
    /\ Goto(t, "ret")
    /\ Upd(t, [loc[t] EXCEPT !.result = IF sent THEN Ok("none") ELSE Err])
    /\ UNCHANGED <<ws, server_process, request_id, capabilities, client_lock, ws_lock,
                   init_ok, max_id_sent, id_reused, unanswered, cmd>>

\* The command returns: its MutexGuard<BSLClient> is dropped
Return(t) ==
    /\ pc[t] = "ret"
    /\ client_lock' = IF client_lock = t THEN 0 ELSE client_lock
    /\ Goto(t, "done")
    /\ Upd(t, FreshLoc)
    /\ cmd' = [cmd EXCEPT ![t] = "none"]
    /\ UNCHANGED <<ws, server_process, request_id, capabilities, ws_lock,
                   init_ok, max_id_sent, id_reused, unanswered>>

\* Cancel with the MutexGuard<BSLClient> of the dropped future left behind
CancelKeepingGuard(t) ==
    /\ cmd[t] = "validate"
    /\ pc[t] \notin {"idle", "ret", "done"}
    /\ ws_lock' = IF ws_lock = t THEN 0 ELSE ws_lock
    /\ Goto(t, "done")
    /\ Upd(t, FreshLoc)
    /\ cmd' = [cmd EXCEPT ![t] = "none"]
    /\ UNCHANGED <<ws, server_process, request_id, capabilities, client_lock,
                   init_ok, max_id_sent, id_reused, unanswered>>

\* tokio::time::timeout(30 s) around the validation of stream_chat fires
\* (commands.rs:375-377, 431-437): the future is dropped where it stands and
\* with it the guards it holds
Cancel(t) ==
    /\ cmd[t] = "validate"
    /\ pc[t] \notin {"idle", "ret", "done"}
    /\ client_lock' = IF client_lock = t THEN 0 ELSE client_lock
    /\ ws_lock' = IF ws_lock = t THEN 0 ELSE ws_lock
    /\ Goto(t, "done")
    /\ Upd(t, FreshLoc)
    /\ cmd' = [cmd EXCEPT ![t] = "none"]
    /\ UNCHANGED <<ws, server_process, request_id, capabilities,
                   init_ok, max_id_sent, id_reused, unanswered>>

(***************************************************************************)
(* mcp_client.rs: McpManager, the process-wide table of sessions.  Its     *)
(* operations hold the table's mutex from start to end, so each is one     *)
(* step.  A configuration is known by its id, its enabled flag, its        *)
(* transport and a revision that stands for the remaining fields (name,    *)
(* command, args, env).                                                    *)
(***************************************************************************)
ServerIds == {"bsl-ls", "srv1"}

Revisions == {"r1", "r2"}

\* The transport a server id is configured with (settings.rs:62-76)
TransportOf(id) == IF id = "bsl-ls" THEN "internal" ELSE "stdio"

McpServerConfigs ==
    { c \in [id : ServerIds, enabled : BOOLEAN, transport : {"stdio", "internal"},
             rev : Revisions] : c.transport = TransportOf(c.id) }

NoConfig == [id |-> "none", enabled |-> FALSE, transport |-> "none", rev |-> "none"]

\* AppSettings.mcp_servers: at most one configuration per id
McpSettings ==
    {<<>>}
    \cup { <<c>> : c \in McpServerConfigs }
    \cup { <<c, d>> : c \in {x \in McpServerConfigs : x.id = "bsl-ls"},
                      d \in {x \in McpServerConfigs : x.id = "srv1"} }

\* Arc<McpSession> pointers: a session is known by its address, and a
\* session just created has none of the addresses still in use
Addresses == 1..(2 * Cardinality(ServerIds))

NoEntry == [present |-> FALSE, config |-> NoConfig, session |-> 0]

Entry(config, session) == [present |-> TRUE, config |-> config, session |-> session]

McpStill ==
    /\ sessions = [id \in ServerIds |-> NoEntry]
    /\ children = {}
    /\ handler_alive = TRUE
    /\ mcp_op = "none"
    /\ new_settings = <<>>

\* McpSession::is_alive (mcp_client.rs:610-620)
IsAlive(entry, kids, handler) ==
    IF entry.config.transport = "internal" THEN handler ELSE entry.session \in kids

\* needs_restart answering yes for every server
NeedsRestartAlways(table, config, kids, handler) == TRUE

\* needs_restart (mcp_client.rs:149-153)
NeedsRestart(table, config, kids, handler) ==
    IF table[config.id].present
    THEN table[config.id].config # config \/ ~IsAlive(table[config.id], kids, handler)
    ELSE TRUE

\* The sessions a table holds
Stored(table) == { table[id].session : id \in {x \in ServerIds : table[x].present} }

\* Arc::new: an address that no session in use has
NewAddress(in_use) == CHOOSE a \in Addresses \ in_use : \A b \in Addresses \ in_use : a <= b

\* One pass of `for config in new_settings.mcp_servers` (mcp_client.rs:142-178)
\* on the table.  can_start: the ids whose session can be created (the
\* handler is registered, new_stdio returns Ok).
ReconfigureOne(table, config, kids, handler, can_start) ==
    IF ~config.enabled
    THEN [table EXCEPT ![config.id] = NoEntry]
    ELSE IF ~NeedsRestart(table, config, kids, handler)
    THEN table
    ELSE IF config.id \in can_start
    THEN [table EXCEPT ![config.id] =
            Entry(config, NewAddress(Stored(sessions) \cup Stored(table)))]
    ELSE [table EXCEPT ![config.id] = NoEntry]

RECURSIVE ReconfigureAll(_, _, _, _, _)
ReconfigureAll(table, configs, kids, handler, can_start) ==
    IF configs = <<>> THEN table
    ELSE ReconfigureAll(ReconfigureOne(table, Head(configs), kids, handler, can_start),
                        Tail(configs), kids, handler, can_start)

\* sessions.retain(|id, _| new_server_ids.contains(id)) (mcp_client.rs:134-139)
Retain(table, settings) ==
    [id \in ServerIds |->
        IF \E i \in 1..Len(settings) : settings[i].id = id THEN table[id] ELSE NoEntry]

\* The stdio sessions among the entries of a table
StdioSessions(table) ==
    { table[id].session :
        id \in {x \in ServerIds : table[x].present /\ table[x].config.transport = "stdio"} }

\* McpManager::reconfigure up to the BSL part (mcp_client.rs:130-181), which is
\* the command "reconfigure" of the Symbol Service.  A session that leaves
\* the table is dropped and its child killed; one that enters it has a
\* running child.
Reconfigure(settings, can_start) ==
    LET table == ReconfigureAll(Retain(sessions, settings), settings, children,
                                handler_alive, can_start)
    IN  /\ sessions' = table
        /\ children' = (children \cap Stored(table))
                        \cup (StdioSessions(table) \ Stored(sessions))
        /\ new_settings' = settings
        /\ mcp_op' = "reconfigure"
        /\ UNCHANGED handler_alive
        /\ UNCHANGED <<aggVars, chatVars, lspVars, toolVars, mergeVars, retryVars, rpcVars, histVars, pasteVars, approveVars>>

\* McpManager::get_client for the internal and the stdio transport
\* (mcp_client.rs:88-128).  can_start: the handler is registered, new_stdio
\* returns Ok.
GetClient(config, can_start) ==
    LET stored == sessions[config.id]
        keep == IF config.transport = "internal"
                THEN stored.present /\ IsAlive(stored, children, handler_alive)
                ELSE /\ stored.present
                     /\ IsAlive(stored, children, handler_alive)
                     /\ stored.config = config
    IN  /\ mcp_op' = "get_client"
        /\ IF keep \/ ~can_start
           THEN UNCHANGED <<sessions, children>>
           ELSE /\ sessions' = [sessions EXCEPT ![config.id] =
                                    Entry(config, NewAddress(Stored(sessions)))]
                /\ children' = (children \cap Stored(sessions'))
                                \cup (StdioSessions(sessions') \ Stored(sessions))
        /\ UNCHANGED <<handler_alive, new_settings>>
        /\ UNCHANGED <<aggVars, chatVars, lspVars, toolVars, mergeVars, retryVars, rpcVars, histVars, pasteVars, approveVars>>

\* The child process of a session exits
ChildExits(s) ==
    /\ s \in children
    /\ children' = children \ {s}
    /\ mcp_op' = "exit"
    /\ UNCHANGED <<sessions, handler_alive, new_settings>>
    /\ UNCHANGED <<aggVars, chatVars, lspVars, toolVars, mergeVars, retryVars, rpcVars, histVars, pasteVars, approveVars>>

\* The answer of BSLMcpHandler::is_alive changes with the settings and the
\* installation (bsl_client.rs:924-945)
HandlerChanges ==
    /\ handler_alive' = ~handler_alive
    /\ mcp_op' = "handler"
    /\ UNCHANGED <<sessions, children, new_settings>>
    /\ UNCHANGED <<aggVars, chatVars, lspVars, toolVars, mergeVars, retryVars, rpcVars, histVars, pasteVars, approveVars>>

(***************************************************************************)
(* commands.rs: one pass of `for tool_call in tool_calls`, the search for  *)
(* the server that has the tool.  Names are sequences of characters.       *)
(***************************************************************************)
ToolServerIds == {"srv1", "srv2", "bsl-ls"}

\* configurations in settings.mcp_servers
MaxServers == 2

\* c.is_alphanumeric() || c == '_' || c == '-' (commands.rs:321-323)
KeptChar(c) == c \in {"f", "g", "_", "-"}

\* t.name.chars().filter(..).collect::<String>() (commands.rs:321-323)
Sanitized(name) == SelectSeq(name, KeptChar)

ToolNames == { <<"f">>, <<"g">>, <<"f", ".">>, <<".", "f">> }

\* What a server answers to list_tools
ToolLists == { <<>>, << <<"g">> >>, << <<"f">> >>, << <<"g">>, <<".", "f">>, <<"f">> >> }


ToolSettings ==
    { s \in UNION { [1..n -> [id : ToolServerIds, enabled : BOOLEAN]] : n \in 0..MaxServers } :
        \A i, j \in 1..Len(s) : s[i].id = s[j].id => i = j }

NoList == [ok |-> FALSE, tools |-> <<>>]

NoToolResult == <<"none">>

ToolStill ==
    /\ mcp_servers = <<>>
    /\ bsl_enabled = FALSE
    /\ offers = [id \in ToolServerIds |-> <<>>]
    /\ tool_name = <<>>
    /\ all_configs = <<>>
    /\ cursor = 0
    /\ listed = <<>>
    /\ invoked_on = 0
    /\ called_as = <<>>
    /\ tool_result = NoToolResult

\* all_configs: the servers of the settings, and the virtual BSL server
\* when the settings have none of that id (commands.rs:301-312)
AllConfigs(servers, bsl) ==
    IF \E i \in 1..Len(servers) : servers[i].id = "bsl-ls"
    THEN servers
    ELSE Append(servers, [id |-> "bsl-ls", enabled |-> bsl])

\* tools.into_iter().find(..) (commands.rs:320-325): the position of the
\* first tool whose sanitized name is the called name, 0 if there is none
FindTool(tools, name) ==
    IF \E i \in 1..Len(tools) : Sanitized(tools[i]) = name
    THEN CHOOSE i \in 1..Len(tools) :
            /\ Sanitized(tools[i]) = name
            /\ \A j \in 1..(i - 1) : Sanitized(tools[j]) # name
    ELSE 0

\* The loop over the tool calls reaches a call (commands.rs:289-312)
BeginToolCall ==
    /\ all_configs = <<>>
    /\ tool_result = NoToolResult
    /\ all_configs' = AllConfigs(mcp_servers, bsl_enabled)
    /\ UNCHANGED <<mcp_servers, bsl_enabled, offers, tool_name, cursor, listed,
                   invoked_on, called_as, tool_result>>
    /\ UNCHANGED <<aggVars, chatVars, lspVars, mgrVars, mergeVars, retryVars, rpcVars, histVars, pasteVars, approveVars>>

\* Probe with the test of config.enabled left out
ProbeAnyServer(reached, ok) ==
    /\ tool_result = NoToolResult
    /\ cursor < Len(all_configs)
    /\ cursor' = cursor + 1
    /\ LET config == all_configs[cursor + 1]
           tools == offers[config.id]
           at == FindTool(tools, tool_name)
       IN  IF ~reached
           THEN /\ listed' = Append(listed, NoList)
                /\ UNCHANGED <<invoked_on, called_as, tool_result>>
           ELSE /\ listed' = Append(listed, [ok |-> TRUE, tools |-> tools])
                /\ IF at = 0
                   THEN UNCHANGED <<invoked_on, called_as, tool_result>>
                   ELSE /\ invoked_on' = cursor + 1
                        /\ called_as' = tools[at]
                        /\ tool_result' = IF ok THEN <<"result">>
                                          ELSE <<"Error calling tool: ", "e">>
    /\ UNCHANGED <<mcp_servers, bsl_enabled, offers, tool_name, all_configs>>
    /\ UNCHANGED <<aggVars, chatVars, lspVars, mgrVars, mergeVars, retryVars, rpcVars, histVars, pasteVars, approveVars>>

\* One pass of `for config in all_configs` (commands.rs:314-350).  reached:
\* McpClient::new and list_tools both return Ok; ok: call_tool returns Ok.
Probe(reached, ok) ==
    /\ tool_result = NoToolResult
    /\ cursor < Len(all_configs)
    /\ cursor' = cursor + 1
    /\ LET config == all_configs[cursor + 1]
           tools == offers[config.id]
           at == FindTool(tools, tool_name)
       IN  IF ~config.enabled \/ ~reached
           THEN /\ listed' = Append(listed, NoList)
                /\ UNCHANGED <<invoked_on, called_as, tool_result>>
           ELSE /\ listed' = Append(listed, [ok |-> TRUE, tools |-> tools])
                /\ IF at = 0
                   THEN UNCHANGED <<invoked_on, called_as, tool_result>>
                   ELSE /\ invoked_on' = cursor + 1
                        /\ called_as' = tools[at]
                        /\ tool_result' = IF ok THEN <<"result">>
                                          ELSE <<"Error calling tool: ", "e">>
    /\ UNCHANGED <<mcp_servers, bsl_enabled, offers, tool_name, all_configs>>
    /\ UNCHANGED <<aggVars, chatVars, lspVars, mgrVars, mergeVars, retryVars, rpcVars, histVars, pasteVars, approveVars>>

\* The loop ends with nothing found: the message carries the initial value
\* of tool_result (commands.rs:298, 352-358)
NotFound ==
    /\ tool_result = NoToolResult
    /\ all_configs # <<>>
    /\ cursor = Len(all_configs)
    /\ tool_result' = <<"Error: Tool not found">>
    /\ UNCHANGED <<mcp_servers, bsl_enabled, offers, tool_name, all_configs, cursor,
                   listed, invoked_on, called_as>>
    /\ UNCHANGED <<aggVars, chatVars, lspVars, mgrVars, mergeVars, retryVars, rpcVars, histVars, pasteVars, approveVars>>

(***************************************************************************)
(* The patch reconciler, merge policy 2: the target is found in both       *)
(* symbol tables.  A text is a sequence of lines, a line a sequence of     *)
(* characters; a range names the first and the last line of a symbol.      *)
(***************************************************************************)
\* lines of a text
MaxLines == 3

TextLines == { <<"x">>, <<"x", "x", "x", "x", "x">> }

Texts == UNION { [1..n -> TextLines] : n \in 1..MaxLines }

Ranges(text) == { r \in [first : 1..Len(text), last : 1..Len(text)] : r.first <= r.last }

NoRange == [first |-> 0, last |-> 0]

NotReturned == << <<"none">> >>

\* An original up to this length counts as trivially sized
TrivialSize == 4

MergeStill ==
    /\ original_text = <<>>
    /\ ai_text = <<>>
    /\ orig_range = NoRange
    /\ ai_range = NoRange
    /\ patched_text = NotReturned

\* The length of a text: its characters and one line end per line
RECURSIVE TextLength(_)
TextLength(text) ==
    IF text = <<>> THEN 0
    ELSE Len(Head(text)) + 1 + TextLength(Tail(text))

\* The original with the lines of its symbol replaced by the lines of the
\* snippet's symbol, everything before and after untouched
Splice(original, range, snippet, snippet_range) ==
    SubSeq(original, 1, range.first - 1)
        \o SubSeq(snippet, snippet_range.first, snippet_range.last)
        \o SubSeq(original, range.last + 1, Len(original))

\* The merged text has collapsed to under half of a non-trivial original
Collapsed(merged, original) ==
    /\ 2 * TextLength(merged) < TextLength(original)
    /\ TextLength(original) > TrivialSize

\* The replacement returned whatever its length
ReplaceTargetUnguarded(original, range, snippet, snippet_range) ==
    Splice(original, range, snippet, snippet_range)

\* Merge policy 2: replace the range, reject a collapsed result
ReplaceTarget(original, range, snippet, snippet_range) ==
    LET merged == Splice(original, range, snippet, snippet_range)
    IN  IF Collapsed(merged, original) THEN original ELSE merged

\* reconcile with a target found in both symbol tables
Reconcile ==
    /\ patched_text = NotReturned
    /\ patched_text' = ReplaceTarget(original_text, orig_range, ai_text, ai_range)
    /\ UNCHANGED <<original_text, ai_text, orig_range, ai_range>>
    /\ UNCHANGED <<aggVars, chatVars, lspVars, mgrVars, toolVars, retryVars, rpcVars, histVars, pasteVars, approveVars>>

(***************************************************************************)
(* ai_client.rs stream_chat_completion: the loop that sends the request    *)
(* (ai_client.rs:326-357).  An answer is an HTTP status or a failure of    *)
(* the transport.                                                          *)
(***************************************************************************)
request_max_retries == 3

RETRY_DELAY_S == 2

Statuses == {200, 201, 400, 401, 404, 429, 500, 502, 503}

Answer(kind, status) == [kind |-> kind, status |-> status]

\* What client.post(..).send().await can give: Ok(response) with a status,
\* or Err (no connection, the 120 s of the client over)
Answers ==
    { Answer("response", s) : s \in Statuses }
        \cup { Answer("connect_error", 0), Answer("timeout", 0) }

\* StatusCode::is_success
IsSuccess(answer) == answer.kind = "response" /\ answer.status \in 200..299

RetryStill ==
    /\ attempt = 0
    /\ retry_pc = "send"
    /\ answers = <<>>
    /\ slept_s = 0
    /\ request_error = "none"

\* The retry arms taken for every status of the 5xx class
RetriedAny5xx(answer) ==
    \/ answer.kind = "response" /\ answer.status \in 500..599 /\ attempt + 1 < request_max_retries
    \/ answer.kind # "response" /\ attempt + 1 < request_max_retries

\* The two arms that sleep and continue (ai_client.rs:339-343, 350-354),
\* seen after `attempt += 1`
Retried(answer) ==
    \/ answer.kind = "response" /\ answer.status = 500 /\ attempt + 1 < request_max_retries
    \/ answer.kind # "response" /\ attempt + 1 < request_max_retries

\* attempt += 1; send().await; match res (ai_client.rs:329-356)
SendModelRequest(answer) ==
    /\ retry_pc = "send"
    /\ attempt' = attempt + 1
    /\ answers' = Append(answers, answer)
    /\ IF IsSuccess(answer)
       THEN retry_pc' = "response" /\ UNCHANGED request_error
       ELSE IF Retried(answer)
       THEN retry_pc' = "sleep" /\ UNCHANGED request_error
       ELSE /\ retry_pc' = "failed"
            /\ request_error' = IF answer.kind = "response" THEN "API error"
                                ELSE "Request failed after attempts"
    /\ UNCHANGED slept_s
    /\ UNCHANGED <<aggVars, chatVars, lspVars, mgrVars, toolVars, mergeVars, rpcVars, histVars, pasteVars, approveVars>>

\* tokio::time::sleep(2 s).await; continue (ai_client.rs:341-342, 352-353)
RetrySleep ==
    /\ retry_pc = "sleep"
    /\ slept_s' = slept_s + RETRY_DELAY_S
    /\ retry_pc' = "send"
    /\ UNCHANGED <<attempt, answers, request_error>>
    /\ UNCHANGED <<aggVars, chatVars, lspVars, mgrVars, toolVars, mergeVars, rpcVars, histVars, pasteVars, approveVars>>

(***************************************************************************)
(* mcp_client.rs McpSession over the stdio transport: request() called by  *)
(* several callers at once (mcp_client.rs:622-664), the writer task        *)
(* (mcp_client.rs:535-547) and the reader task (mcp_client.rs:549-581) of  *)
(* new_stdio.  A oneshot channel is named by the id of the request that    *)
(* created it.                                                             *)
(***************************************************************************)
MaxRequests == 2

Callers == {"c1", "c2"}

RequestIds == 1..MaxRequests

\* The ids a line of the server may carry: those of the session and one more
LineIds == 1..(MaxRequests + 1)

\* What the child may write on stdout: a line that does not start with '{',
\* a line serde does not read as a JsonRpcResponse, a response without id,
\* and for every id a response with a result or with an error
NoLine == [kind |-> "none", has_id |-> FALSE, id |-> 0, error |-> FALSE, body |-> ""]

StdoutLines ==
    { [kind |-> "log", has_id |-> FALSE, id |-> 0, error |-> FALSE, body |-> ""],
      [kind |-> "unparsed", has_id |-> FALSE, id |-> 0, error |-> FALSE, body |-> ""],
      [kind |-> "response", has_id |-> FALSE, id |-> 0, error |-> FALSE, body |-> "a"] }
    \cup { [kind |-> "response", has_id |-> TRUE, id |-> i, error |-> FALSE, body |-> "a"] :
              i \in LineIds }
    \cup { [kind |-> "response", has_id |-> TRUE, id |-> i, error |-> TRUE, body |-> "e"] :
              i \in LineIds }

NoValue == [kind |-> "none", body |-> ""]

RpcStill ==
    /\ next_id = 1
    /\ pending_requests = <<>>
    /\ channel = [k \in RequestIds |-> NoValue]
    /\ rpc_pc = [c \in Callers |-> "idle"]
    /\ rpc_id = [c \in Callers |-> 0]
    /\ rpc_result = [c \in Callers |-> NoValue]
    /\ writer_alive = TRUE
    /\ reader_alive = TRUE
    /\ last_line = NoLine
    /\ routed = <<>>

\* if let Some(err) = response.error { Err(format!("MCP Error ..")) }
\* else { Ok(response.result.unwrap_or(Value::Null)) } (mcp_client.rs:569-573)
ResultOf(line) ==
    IF line.error THEN [kind |-> "err", body |-> line.body]
    ELSE [kind |-> "ok", body |-> line.body]

\* pending.insert(id, auth_tx) (mcp_client.rs:652)
Inserted(pending, id) ==
    [k \in (DOMAIN pending) \cup {id} |-> IF k = id THEN id ELSE pending[k]]

\* pending.remove(&id): the map without the key (mcp_client.rs:568, 661)
Removed(pending, id) ==
    [k \in (DOMAIN pending) \ {id} |-> pending[k]]

\* A reader that hands the line to whichever sender the map holds
SenderOfAny(pending, id) ==
    IF DOMAIN pending # {} THEN pending[CHOOSE k \in DOMAIN pending : TRUE] ELSE 0

\* pending.remove(&id): the sender stored under the key, 0 for None
\* (mcp_client.rs:568)
SenderOf(pending, id) ==
    IF id \in DOMAIN pending THEN pending[id] ELSE 0

\* The receiver of a channel lives while the call that created it awaits
\* tx.send or the timeout future (mcp_client.rs:655-657)
ReceiverLives(k) ==
    \E c \in Callers : rpc_id[c] = k /\ rpc_pc[c] \in {"send", "wait"}

\* let id = self.next_id.fetch_add(1, Relaxed) (mcp_client.rs:623)
DrawId(c) ==
    /\ rpc_pc[c] \in {"idle", "done"}
    /\ next_id <= MaxRequests
    /\ rpc_id' = [rpc_id EXCEPT ![c] = next_id]
    /\ next_id' = next_id + 1
    /\ rpc_result' = [rpc_result EXCEPT ![c] = NoValue]
    /\ rpc_pc' = [rpc_pc EXCEPT ![c] = "insert"]
    /\ UNCHANGED <<pending_requests, channel, writer_alive, reader_alive, last_line, routed>>
    /\ UNCHANGED <<aggVars, chatVars, lspVars, mgrVars, toolVars, mergeVars, retryVars, histVars, pasteVars, approveVars>>

\* let (auth_tx, auth_rx) = oneshot::channel(); pending.insert(id, auth_tx)
\* (mcp_client.rs:649-653)
InsertPending(c) ==
    /\ rpc_pc[c] = "insert"
    /\ pending_requests' = Inserted(pending_requests, rpc_id[c])
    /\ rpc_pc' = [rpc_pc EXCEPT ![c] = "send"]
    /\ UNCHANGED <<next_id, channel, rpc_id, rpc_result, writer_alive, reader_alive, last_line, routed>>
    /\ UNCHANGED <<aggVars, chatVars, lspVars, mgrVars, toolVars, mergeVars, retryVars, histVars, pasteVars, approveVars>>

\* tx.send(req).await gives Ok while the writer task receives; the writer
\* task then writes the line and breaks when the write or the flush fails
\* (mcp_client.rs:655, 536-546)
SendToWriter(c, written) ==
    /\ rpc_pc[c] = "send"
    /\ writer_alive
    /\ writer_alive' = written
    /\ rpc_pc' = [rpc_pc EXCEPT ![c] = "wait"]
    /\ UNCHANGED <<next_id, pending_requests, channel, rpc_id, rpc_result, reader_alive, last_line, routed>>
    /\ UNCHANGED <<aggVars, chatVars, lspVars, mgrVars, toolVars, mergeVars, retryVars, histVars, pasteVars, approveVars>>

\* tx.send(req).await.map_err(..)?: the writer task has ended; the entry
\* stays in the map (mcp_client.rs:655)
SendFails(c) ==
    /\ rpc_pc[c] = "send"
    /\ ~writer_alive
    /\ rpc_result' = [rpc_result EXCEPT ![c] =
                        [kind |-> "err", body |-> "Failed to send request to MCP process"]]
    /\ rpc_pc' = [rpc_pc EXCEPT ![c] = "done"]
    /\ UNCHANGED <<next_id, pending_requests, channel, rpc_id, writer_alive, reader_alive, last_line, routed>>
    /\ UNCHANGED <<aggVars, chatVars, lspVars, mgrVars, toolVars, mergeVars, retryVars, histVars, pasteVars, approveVars>>

\* timeout(30 s, auth_rx).await gives Ok(res): the value sent into the
\* channel is what request() returns (mcp_client.rs:657-658)
Receive(c) ==
    /\ rpc_pc[c] = "wait"
    /\ channel[rpc_id[c]] # NoValue
    /\ rpc_result' = [rpc_result EXCEPT ![c] = channel[rpc_id[c]]]
    /\ rpc_pc' = [rpc_pc EXCEPT ![c] = "done"]
    /\ UNCHANGED <<next_id, pending_requests, channel, rpc_id, writer_alive, reader_alive, last_line, routed>>
    /\ UNCHANGED <<aggVars, chatVars, lspVars, mgrVars, toolVars, mergeVars, retryVars, histVars, pasteVars, approveVars>>

\* timeout(30 s, auth_rx).await gives Err(_): nothing was sent within
\* 30 s; the receiver is dropped with the future (mcp_client.rs:657, 659)
TimeoutFires(c) ==
    /\ rpc_pc[c] = "wait"
    /\ channel[rpc_id[c]] = NoValue
    /\ rpc_pc' = [rpc_pc EXCEPT ![c] = "expired"]
    /\ UNCHANGED <<next_id, pending_requests, channel, rpc_id, rpc_result, writer_alive,
                   reader_alive, last_line, routed>>
    /\ UNCHANGED <<aggVars, chatVars, lspVars, mgrVars, toolVars, mergeVars, retryVars, histVars, pasteVars, approveVars>>

\* pending.remove(&id); Err("Timeout waiting for MCP response")
\* (mcp_client.rs:660-662)
ForgetPending(c) ==
    /\ rpc_pc[c] = "expired"
    /\ pending_requests' = Removed(pending_requests, rpc_id[c])
    /\ rpc_result' = [rpc_result EXCEPT ![c] =
                        [kind |-> "err", body |-> "Timeout waiting for MCP response"]]
    /\ rpc_pc' = [rpc_pc EXCEPT ![c] = "done"]
    /\ UNCHANGED <<next_id, channel, rpc_id, writer_alive, reader_alive, last_line, routed>>
    /\ UNCHANGED <<aggVars, chatVars, lspVars, mgrVars, toolVars, mergeVars, retryVars, histVars, pasteVars, approveVars>>

\* The future of request() is dropped at one of its awaits: the timeout
\* around the call ran out (mcp_client.rs:325, 333) or the calling task was
\* aborted.  Nothing of request() runs after that.
Abandon(c) ==
    /\ rpc_pc[c] \in {"insert", "send", "wait", "expired"}
    /\ rpc_result' = [rpc_result EXCEPT ![c] = [kind |-> "abandoned", body |-> ""]]
    /\ rpc_pc' = [rpc_pc EXCEPT ![c] = "done"]
    /\ UNCHANGED <<next_id, pending_requests, channel, rpc_id, writer_alive, reader_alive,
                   last_line, routed>>
    /\ UNCHANGED <<aggVars, chatVars, lspVars, mgrVars, toolVars, mergeVars, retryVars, histVars, pasteVars, approveVars>>

\* One turn of the reader task on a line of stdout (mcp_client.rs:557-577):
\* lines that do not start with '{' or do not parse, and responses without
\* id, are passed over; otherwise the sender stored under the id is removed
\* and given the result, and `let _ =` ignores a send to a dropped receiver
ReaderLine(line) ==
    /\ reader_alive
    /\ last_line' = line
    /\ LET to == IF line.kind = "response" /\ line.has_id
                 THEN SenderOf(pending_requests, line.id) ELSE 0
       IN  IF to # 0
           THEN /\ pending_requests' = Removed(pending_requests, line.id)
                /\ IF ReceiverLives(to)
                   THEN /\ channel' = [channel EXCEPT ![to] = ResultOf(line)]
                        /\ routed' = Append(routed, [line |-> line, to |-> to])
                   ELSE UNCHANGED <<channel, routed>>
           ELSE UNCHANGED <<pending_requests, channel, routed>>
    /\ UNCHANGED <<next_id, rpc_pc, rpc_id, rpc_result, writer_alive, reader_alive>>
    /\ UNCHANGED <<aggVars, chatVars, lspVars, mgrVars, toolVars, mergeVars, retryVars, histVars, pasteVars, approveVars>>

\* _ => break: EOF or a read error ends the reader task (mcp_client.rs:580)
ReaderStops ==
    /\ reader_alive
    /\ reader_alive' = FALSE
    /\ UNCHANGED <<next_id, pending_requests, channel, rpc_pc, rpc_id, rpc_result,
                   writer_alive, last_line, routed>>
    /\ UNCHANGED <<aggVars, chatVars, lspVars, mgrVars, toolVars, mergeVars, retryVars, histVars, pasteVars, approveVars>>

(***************************************************************************)
(* history_manager.rs: the undo snapshots, a map from window handle to a   *)
(* Vec of codes (history_manager.rs:12-38).  A code is named by the number *)
(* of the save that stored it, so that two snapshots never look alike.     *)
(***************************************************************************)
MaxSaves == 12
MaxPops == 2
SNAPSHOT_LIMIT == 10

Hwnds == {1, 2}

NoOp == [op |-> "none", hwnd |-> 0, some |-> FALSE, code |-> 0]

HistStill ==
    /\ SNAPSHOTS = [h \in Hwnds |-> [present |-> FALSE, list |-> <<>>]]
    /\ saved = [h \in Hwnds |-> <<>>]
    /\ saves = 0
    /\ hist_op = NoOp

\* The cap that discards the snapshot saved last
CappedDroppingNewest(list) ==
    IF Len(list) > SNAPSHOT_LIMIT THEN SubSeq(list, 1, Len(list) - 1) ELSE list

\* if list.len() > 10 { list.remove(0); } (history_manager.rs:26-28)
Capped(list) ==
    IF Len(list) > SNAPSHOT_LIMIT THEN Tail(list) ELSE list

\* save_snapshot(hwnd, code): entry(hwnd).or_insert_with(Vec::new), push, cap
\* (history_manager.rs:16-29)
SaveSnapshot(hwnd, code) ==
    /\ saves < MaxSaves
    /\ saves' = saves + 1
    /\ SNAPSHOTS' = [SNAPSHOTS EXCEPT ![hwnd] =
                       [present |-> TRUE, list |-> Capped(Append(@.list, code))]]
    /\ saved' = [saved EXCEPT ![hwnd] = Append(@, code)]
    /\ hist_op' = [op |-> "save", hwnd |-> hwnd, some |-> FALSE, code |-> code]

\* save_snapshot called on its own
save_snapshot(hwnd, code) ==
    /\ SaveSnapshot(hwnd, code)
    /\ UNCHANGED <<aggVars, chatVars, lspVars, mgrVars, toolVars, mergeVars, retryVars, rpcVars, pasteVars, approveVars>>

\* How many snapshots pop_snapshot has taken out so far
Popped == saves - (Len(saved[1]) + Len(saved[2]))

\* pop_snapshot(hwnd): list.pop() of the window's Vec, None without the key
\* (history_manager.rs:31-38)
PopSnapshot(hwnd) ==
    /\ saved[hwnd] = <<>> \/ Popped < MaxPops
    /\ LET list == SNAPSHOTS[hwnd].list
       IN  IF SNAPSHOTS[hwnd].present /\ list # <<>>
           THEN /\ SNAPSHOTS' = [SNAPSHOTS EXCEPT ![hwnd].list = SubSeq(list, 1, Len(list) - 1)]
                /\ hist_op' = [op |-> "pop", hwnd |-> hwnd, some |-> TRUE, code |-> list[Len(list)]]
           ELSE /\ UNCHANGED SNAPSHOTS
                /\ hist_op' = [op |-> "pop", hwnd |-> hwnd, some |-> FALSE, code |-> 0]
    /\ saved' = [saved EXCEPT ![hwnd] = IF @ = <<>> THEN @ ELSE SubSeq(@, 1, Len(@) - 1)]
    /\ UNCHANGED saves

\* pop_snapshot called on its own
pop_snapshot(hwnd) ==
    /\ PopSnapshot(hwnd)
    /\ UNCHANGED <<aggVars, chatVars, lspVars, mgrVars, toolVars, mergeVars, retryVars, rpcVars, pasteVars, approveVars>>

(***************************************************************************)
(* commands.rs paste_code_to_configurator and undo_last_change, in the     *)
(* build for Windows (commands.rs:638-701), with                           *)
(* configurator::calculate_content_hash (configurator.rs:24-30).  A text   *)
(* is a sequence of characters; `document` is the text the window gives to *)
(* get_selected_code and takes from paste_code.                            *)
(***************************************************************************)
MaxPastes == 3

DocTexts == { <<"x">>, <<" ", "x", " ">>, <<"y">> }

NoText == [some |-> FALSE, v |-> <<>>]

NoPaste == [cmd |-> "none", hwnd |-> 0, original |-> NoText, read_ok |-> FALSE,
            returned |-> "none"]

PasteStill ==
    /\ document = [h \in Hwnds |-> <<>>]
    /\ pastes = 0
    /\ paste_op = NoPaste

RECURSIVE TrimStart(_)
TrimStart(text) ==
    IF text # <<>> /\ Head(text) = " " THEN TrimStart(Tail(text)) ELSE text

RECURSIVE TrimEnd(_)
TrimEnd(text) ==
    IF text # <<>> /\ text[Len(text)] = " "
    THEN TrimEnd(SubSeq(text, 1, Len(text) - 1)) ELSE text

\* str::trim
Trim(text) == TrimEnd(TrimStart(text))

\* content.trim().hash(&mut hasher); format!("{:x}", hasher.finish()): a
\* digest of the trimmed text, taken here without collisions
\* (configurator.rs:24-30)
calculate_content_hash(content) == <<"hash", Trim(content)>>

\* paste_code_to_configurator (commands.rs:638-684).  read_ok: whether
\* get_selected_code gave Ok (configurator.rs:331-345); paste_ok: whether
\* configurator::paste_code gave Ok (configurator.rs:370-371)
paste_code_to_configurator(hwnd, code, original_content, read_ok, paste_ok) ==
    /\ pastes < MaxPastes
    /\ pastes' = pastes + 1
    /\ LET current_code == document[hwnd]
           conflict == /\ read_ok
                       /\ original_content.some
                       /\ calculate_content_hash(original_content.v)
                             # calculate_content_hash(current_code)
           op(returned) == [cmd |-> "paste", hwnd |-> hwnd, original |-> original_content,
                            read_ok |-> read_ok, returned |-> returned]
       IN  IF conflict
           THEN /\ paste_op' = op("CONFLICT")
                /\ UNCHANGED <<document, histVars>>
           ELSE /\ IF read_ok THEN SaveSnapshot(hwnd, current_code) ELSE UNCHANGED histVars
                /\ IF paste_ok
                   THEN /\ document' = [document EXCEPT ![hwnd] = code]
                        /\ paste_op' = op("ok")
                   ELSE /\ UNCHANGED document
                        /\ paste_op' = op("paste failed")
    /\ UNCHANGED <<aggVars, chatVars, lspVars, mgrVars, toolVars, mergeVars, retryVars, rpcVars, approveVars>>

\* undo_last_change (commands.rs:686-701)
undo_last_change(hwnd, paste_ok) ==
    /\ pastes < MaxPastes
    /\ pastes' = pastes + 1
    /\ PopSnapshot(hwnd)
    /\ LET op(returned) == [cmd |-> "undo", hwnd |-> hwnd, original |-> NoText,
                            read_ok |-> FALSE, returned |-> returned]
       IN  IF hist_op'.some
           THEN IF paste_ok
                THEN /\ document' = [document EXCEPT ![hwnd] = hist_op'.code]
                     /\ paste_op' = op("ok")
                ELSE /\ UNCHANGED document
                     /\ paste_op' = op("paste failed")
           ELSE /\ UNCHANGED document
                /\ paste_op' = op("No history for this window")
    /\ UNCHANGED <<aggVars, chatVars, lspVars, mgrVars, toolVars, mergeVars, retryVars, rpcVars, approveVars>>

(***************************************************************************)
(* commands.rs approve_tool and reject_tool as commands with a return      *)
(* value (commands.rs:164-190)                                             *)
(***************************************************************************)
MaxApprovals == 3

ApproveStill ==
    /\ approve_calls = 0
    /\ approve_result = "none"

(***************************************************************************)
(* Inputs of the aggregator: a response body is a run of events drawn from *)
(* AggEvents, cut by the transport at any byte.                            *)
(***************************************************************************)
MaxEvents == 3

AggEvents ==
    { <<"P", "a", "n", "n">>,
      <<"P", "H", "T", "n", "n">>,
      <<"P", "t0", "n", "P", "u0", "n", "n">>,
      <<"P", "a", "u1", "n", "n">>,
      <<"P", "<", "k", "a", "n", "n">>,
      <<"P", "a", "<", "/", "k", "a", "n", "n">>,
      <<"P", "X", "n", "n">>,
      <<"P", "D", "n", "n">>,
      <<"P", "a", "n">> }

RECURSIVE Flatten(_)
Flatten(ss) == IF ss = <<>> THEN <<>> ELSE Head(ss) \o Flatten(Tail(ss))

AggStreams ==
    { Flatten(es) : es \in UNION { [1..k -> AggEvents] : k \in 0..MaxEvents } }

AggStill ==
    /\ stream = <<>>
    /\ fed = 0
    /\ buffer = <<>>
    /\ full_content = <<>>
    /\ accumulated_tool_calls = <<>>
    /\ is_thinking = FALSE
    /\ announced_tool_calls = {}
    /\ aggResult = NoResult
    /\ decoded = <<>>
    /\ thinking_emitted = <<>>
    /\ started_emitted = <<>>

AggInit ==
    /\ stream \in AggStreams
    /\ fed = 0
    /\ buffer = <<>>
    /\ full_content = <<>>
    /\ accumulated_tool_calls = <<>>
    /\ is_thinking = FALSE
    /\ announced_tool_calls = {}
    /\ aggResult = NoResult
    /\ decoded = <<>>
    /\ thinking_emitted = <<>>
    /\ started_emitted = <<>>
    /\ ChatStill
    /\ LspStill
    /\ ApproveStill
    /\ PasteStill
    /\ HistStill
    /\ RpcStill
    /\ RetryStill
    /\ MergeStill
    /\ ToolStill
    /\ McpStill

\* stream.next() yields Some(Ok(chunk)): the next k bytes of the body
StreamChunk(k) ==
    /\ aggResult = NoResult
    /\ fed + k <= Len(stream)
    /\ LET st == ConsumeChunk(AggState, SubSeq(stream, fed + 1, fed + k))
       IN  /\ buffer' = st.buffer
           /\ full_content' = st.full_content
           /\ accumulated_tool_calls' = st.calls
           /\ is_thinking' = st.is_thinking
           /\ announced_tool_calls' = st.announced
           /\ aggResult' = st.result
           /\ thinking_emitted' = st.thinking
           /\ started_emitted' = st.started
    /\ decoded' = decoded \o LossyDecode(SubSeq(stream, fed + 1, fed + k))
    /\ fed' = fed + k
    /\ UNCHANGED <<stream, chatVars, lspVars, mgrVars, toolVars, mergeVars, retryVars, rpcVars, histVars, pasteVars, approveVars>>

\* stream.next() yields None: the body ended (ai_client.rs:479-485)
StreamEnd ==
    /\ aggResult = NoResult
    /\ fed = Len(stream)
    /\ aggResult' = AssistantMessage(full_content, accumulated_tool_calls)
    /\ UNCHANGED <<stream, fed, buffer, full_content, accumulated_tool_calls, is_thinking,
                   announced_tool_calls, decoded, thinking_emitted, started_emitted>>
    /\ UNCHANGED <<chatVars, lspVars, mgrVars, toolVars, mergeVars, retryVars, rpcVars, histVars, pasteVars, approveVars>>

\* stream.next() yields Some(Err(e)): `?` returns the error (ai_client.rs:370)
StreamError ==
    /\ aggResult = NoResult
    /\ aggResult' = [kind |-> "err", content |-> None, tool_calls |-> None]
    /\ UNCHANGED <<stream, fed, buffer, full_content, accumulated_tool_calls, is_thinking,
                   announced_tool_calls, decoded, thinking_emitted, started_emitted>>
    /\ UNCHANGED <<chatVars, lspVars, mgrVars, toolVars, mergeVars, retryVars, rpcVars, histVars, pasteVars, approveVars>>

AggNext ==
    \/ \E k \in 1..Len(stream) : StreamChunk(k)
    \/ StreamEnd
    \/ StreamError

SpecAgg == AggInit /\ [][AggNext]_vars

\* Bodies in which the sentinel has data lines before and after it, in the
\* same event and in later events.
SentinelEvents ==
    { <<"P", "a", "n", "n">>,
      <<"P", "a", "n", "P", "D", "n", "P", "a", "n", "n">>,
      <<"P", "D", "n", "n">>,
      <<"P", "t0", "n", "n">>,
      <<"P", "u0", "n">> }

SentinelStreams ==
    { Flatten(es) : es \in UNION { [1..k -> SentinelEvents] : k \in 0..MaxEvents } }

SentinelInit ==
    /\ stream \in SentinelStreams
    /\ fed = 0
    /\ buffer = <<>>
    /\ full_content = <<>>
    /\ accumulated_tool_calls = <<>>
    /\ is_thinking = FALSE
    /\ announced_tool_calls = {}
    /\ aggResult = NoResult
    /\ decoded = <<>>
    /\ thinking_emitted = <<>>
    /\ started_emitted = <<>>
    /\ ChatStill
    /\ LspStill
    /\ ApproveStill
    /\ PasteStill
    /\ HistStill
    /\ RpcStill
    /\ RetryStill
    /\ MergeStill
    /\ ToolStill
    /\ McpStill

SpecSentinel == SentinelInit /\ [][AggNext]_vars

\* Bodies whose content fragments carry the reasoning markers, whole or cut
\* between two fragments, with text before, between and after them.
ThinkingEvents ==
    { <<"P", "a", "n", "n">>,
      <<"P", "<", "k", "n", "n">>,
      <<"P", "<", "/", "k", "n", "n">>,
      <<"P", "<", "k", "a", "<", "/", "k", "a", "n", "n">>,
      <<"P", "<", "n", "n">>,
      <<"P", "k", "a", "n", "n">>,
      <<"P", "/", "k", "n", "n">> }

ThinkingStreams ==
    { Flatten(es) : es \in UNION { [1..k -> ThinkingEvents] : k \in 0..MaxEvents } }

ThinkingInit ==
    /\ stream \in ThinkingStreams
    /\ fed = 0
    /\ buffer = <<>>
    /\ full_content = <<>>
    /\ accumulated_tool_calls = <<>>
    /\ is_thinking = FALSE
    /\ announced_tool_calls = {}
    /\ aggResult = NoResult
    /\ decoded = <<>>
    /\ thinking_emitted = <<>>
    /\ started_emitted = <<>>
    /\ ChatStill
    /\ LspStill
    /\ ApproveStill
    /\ PasteStill
    /\ HistStill
    /\ RpcStill
    /\ RetryStill
    /\ MergeStill
    /\ ToolStill
    /\ McpStill

SpecThinking == ThinkingInit /\ [][AggNext]_vars

\* Bodies of tool-call fragments: two indices in any order, one delta with
\* fragments of both, a fragment without an index.
ToolEvents ==
    { <<"P", "t0", "n", "n">>,
      <<"P", "u0", "n", "n">>,
      <<"P", "t1", "n", "n">>,
      <<"P", "u1", "n", "n">>,
      <<"P", "u1", "u0", "n", "n">>,
      <<"P", "tn", "n", "n">> }

ToolStreams ==
    { Flatten(es) : es \in UNION { [1..k -> ToolEvents] : k \in 0..MaxEvents } }

ToolInit ==
    /\ stream \in ToolStreams
    /\ fed = 0
    /\ buffer = <<>>
    /\ full_content = <<>>
    /\ accumulated_tool_calls = <<>>
    /\ is_thinking = FALSE
    /\ announced_tool_calls = {}
    /\ aggResult = NoResult
    /\ decoded = <<>>
    /\ thinking_emitted = <<>>
    /\ started_emitted = <<>>
    /\ ChatStill
    /\ LspStill
    /\ ApproveStill
    /\ PasteStill
    /\ HistStill
    /\ RpcStill
    /\ RetryStill
    /\ MergeStill
    /\ ToolStill
    /\ McpStill

SpecTools == ToolInit /\ [][AggNext]_vars

\* Bodies with a data line that is not JSON, alone in its event, and a data
\* line without payload before the lines of the next event, among content,
\* markers, tool-call fragments and the sentinel.
MalformedEvents ==
    { <<"P", "X", "n", "n">>,
      <<"P", "n">>,
      <<"P", "<", "k", "a", "n", "n">>,
      <<"P", "<", "/", "k", "a", "n", "n">>,
      <<"P", "t0", "n", "n">>,
      <<"P", "D", "n", "n">> }

MalformedStreams ==
    { Flatten(es) : es \in UNION { [1..k -> MalformedEvents] : k \in 0..MaxEvents } }

MalformedInit ==
    /\ stream \in MalformedStreams
    /\ fed = 0
    /\ buffer = <<>>
    /\ full_content = <<>>
    /\ accumulated_tool_calls = <<>>
    /\ is_thinking = FALSE
    /\ announced_tool_calls = {}
    /\ aggResult = NoResult
    /\ decoded = <<>>
    /\ thinking_emitted = <<>>
    /\ started_emitted = <<>>
    /\ ChatStill
    /\ LspStill
    /\ ApproveStill
    /\ PasteStill
    /\ HistStill
    /\ RpcStill
    /\ RetryStill
    /\ MergeStill
    /\ ToolStill
    /\ McpStill

SpecMalformed == MalformedInit /\ [][AggNext]_vars

\* let (tx, mut rx) = mpsc::channel::<bool>(1); *guard = Some(tx) (commands.rs:204-208)
ChatStart ==
    /\ chatPc = "not_started"
    /\ approval_tx' = "this"
    /\ rx' = <<>>
    /\ chatPc' = "loop"
    /\ UNCHANGED <<current_iteration, tool_calls, tool_idx, dispatches,
                   waiting_emitted, delivered, invoked, invoked_total, notice_emitted>>
    /\ UNCHANGED <<validation, emitted>>
    /\ UNCHANGED <<aggVars, lspVars, mgrVars, toolVars, mergeVars, retryVars, rpcVars, histVars, pasteVars, approveVars>>

\* The ceiling tested one iteration late
CeilingOffByOne(iteration) == iteration > MAX_ITERATIONS + 1

\* current_iteration > MAX_ITERATIONS (commands.rs:242)
CeilingExceeded(iteration) == iteration > MAX_ITERATIONS

\* The head of the loop (commands.rs:238-245)
LoopTop ==
    /\ chatPc = "loop"
    /\ current_iteration' = current_iteration + 1
    /\ waiting_emitted' = FALSE
    /\ delivered' = NotDelivered
    /\ invoked' = 0
    /\ tool_calls' = 0
    /\ tool_idx' = 0
    /\ IF CeilingExceeded(current_iteration')
       THEN notice_emitted' = TRUE /\ chatPc' = "finish"
       ELSE notice_emitted' = notice_emitted /\ chatPc' = "dispatch"
    /\ UNCHANGED <<approval_tx, rx, dispatches, invoked_total>>
    /\ UNCHANGED <<validation, emitted>>
    /\ UNCHANGED <<aggVars, lspVars, mgrVars, toolVars, mergeVars, retryVars, rpcVars, histVars, pasteVars, approveVars>>

\* stream_chat_completion(...).await and what follows up to the next await
\* (commands.rs:247-265, 365-373).  answer is what the model call gave:
\* an error, a message with n tool calls, a message with fenced code and no
\* tool calls, or a message with neither.
Dispatch(answer, n) ==
    /\ chatPc = "dispatch"
    /\ dispatches' = dispatches + 1
    /\ CASE answer = "error" ->
              /\ chatPc' = "returned_err"
              /\ UNCHANGED <<tool_calls, tool_idx, waiting_emitted>>
         [] answer = "tools" ->
              /\ tool_calls' = n
              /\ tool_idx' = 0
              /\ waiting_emitted' = TRUE
              /\ chatPc' = "await_approval"
         [] answer = "code" ->
              /\ chatPc' = "validate"
              /\ UNCHANGED <<tool_calls, tool_idx, waiting_emitted>>
         [] answer = "plain" ->
              /\ chatPc' = "finish"
              /\ UNCHANGED <<tool_calls, tool_idx, waiting_emitted>>
    /\ UNCHANGED <<current_iteration, approval_tx, rx, delivered, invoked,
                   invoked_total, notice_emitted>>
    /\ UNCHANGED <<validation, emitted>>
    /\ UNCHANGED <<aggVars, lspVars, mgrVars, toolVars, mergeVars, retryVars, rpcVars, histVars, pasteVars, approveVars>>

\* unwrap_or(true) written for unwrap_or(false): a closed channel approves
ApprovedOrClosed(got) == got.some => got.v

\* rx.recv().await.unwrap_or(false) (commands.rs:268): got is Some(bool) or None
Approved(got) == got.some /\ got.v

\* rx.recv() returns: a buffered value, or None once the sender stored in
\* ChatState was replaced and nothing is buffered (commands.rs:268-287)
RecvApproval ==
    /\ chatPc = "await_approval"
    /\ \/ rx # <<>>
       \/ approval_tx # "this"
    /\ LET got == IF rx # <<>> THEN [some |-> TRUE, v |-> Head(rx)]
                  ELSE [some |-> FALSE, v |-> FALSE]
       IN  /\ delivered' = [some |-> got.some, v |-> got.v,
                            after_request |-> waiting_emitted]
           /\ IF Approved(got)
              THEN chatPc' = "tools" /\ tool_idx' = 1
              ELSE chatPc' = "loop" /\ tool_idx' = tool_idx
    /\ rx' = IF rx # <<>> THEN Tail(rx) ELSE rx
    /\ UNCHANGED <<current_iteration, approval_tx, tool_calls, dispatches,
                   waiting_emitted, invoked, invoked_total, notice_emitted>>
    /\ UNCHANGED <<validation, emitted>>
    /\ UNCHANGED <<aggVars, lspVars, mgrVars, toolVars, mergeVars, retryVars, rpcVars, histVars, pasteVars, approveVars>>

\* InvokeTool with a call that matches no tool ending the run with an error
InvokeToolOrFail(found) ==
    /\ chatPc = "tools"
    /\ invoked' = IF found THEN invoked + 1 ELSE invoked
    /\ invoked_total' = IF found THEN invoked_total + 1 ELSE invoked_total
    /\ IF ~found
       THEN tool_idx' = tool_idx /\ chatPc' = "returned_err"
       ELSE IF tool_idx < tool_calls
       THEN tool_idx' = tool_idx + 1 /\ chatPc' = chatPc
       ELSE tool_idx' = tool_idx /\ chatPc' = "loop"
    /\ UNCHANGED <<current_iteration, approval_tx, rx, tool_calls, dispatches,
                   waiting_emitted, delivered, notice_emitted>>
    /\ UNCHANGED <<validation, emitted>>
    /\ UNCHANGED <<aggVars, lspVars, mgrVars, toolVars, mergeVars, retryVars, rpcVars, histVars, pasteVars, approveVars>>

\* One pass of `for tool_call in tool_calls` (commands.rs:289-360).  found
\* says whether an enabled server lists the tool, in which case
\* client.call_tool is invoked (its result or error becomes the message).
InvokeTool(found) ==
    /\ chatPc = "tools"
    /\ invoked' = IF found THEN invoked + 1 ELSE invoked
    /\ invoked_total' = IF found THEN invoked_total + 1 ELSE invoked_total
    /\ IF tool_idx < tool_calls
       THEN tool_idx' = tool_idx + 1 /\ chatPc' = chatPc
       ELSE tool_idx' = tool_idx /\ chatPc' = "loop"
    /\ UNCHANGED <<current_iteration, approval_tx, rx, tool_calls, dispatches,
                   waiting_emitted, delivered, notice_emitted>>
    /\ UNCHANGED <<validation, emitted>>
    /\ UNCHANGED <<aggVars, lspVars, mgrVars, toolVars, mergeVars, retryVars, rpcVars, histVars, pasteVars, approveVars>>

\* What the validation emits when it ends: the time-out status line or the
\* diagnostics for the UI (commands.rs:429-440)
ValidationEvent(outcome) ==
    IF outcome = "timeout" THEN "chat-status: timeout" ELSE "bsl-validation-result"

\* Validate with the request for a fix in force: errors lead back to the
\* head of the loop.
ValidateAndFix(outcome) ==
    /\ chatPc = "validate"
    /\ validation' = outcome
    /\ chatPc' = IF outcome = "errors" THEN "loop" ELSE "finish"
    /\ emitted' = emitted \cup {ValidationEvent(outcome)}
    /\ UNCHANGED <<current_iteration, approval_tx, rx, tool_calls, tool_idx, dispatches,
                   waiting_emitted, delivered, invoked, invoked_total, notice_emitted>>
    /\ UNCHANGED <<aggVars, lspVars, mgrVars, toolVars, mergeVars, retryVars, rpcVars, histVars, pasteVars, approveVars>>

\* The validation of the fenced code blocks (commands.rs:373-467).  outcome
\* is "timeout" (the 30 s ran out), "clean" (analyze_code answered and no
\* Error-severity diagnostic was among the answers), "failed" (connect or
\* analyze_code returned Err, which leaves all_errors empty) or "errors"
\* (all_errors is not empty); each one breaks out of the loop, the request
\* for a fix being commented out (commands.rs:446-466).
EndValidation(outcome) ==
    /\ chatPc = "validate"
    /\ validation' = outcome
    /\ chatPc' = "finish"
    /\ emitted' = emitted \cup {ValidationEvent(outcome)}
    /\ UNCHANGED <<current_iteration, approval_tx, rx, tool_calls, tool_idx, dispatches,
                   waiting_emitted, delivered, invoked, invoked_total, notice_emitted>>

\* The validation seen from the run alone: the Symbol Service is left aside
Validate(outcome) ==
    /\ EndValidation(outcome)
    /\ UNCHANGED <<aggVars, lspVars, mgrVars, toolVars, mergeVars, retryVars, rpcVars, histVars, pasteVars, approveVars>>

\* After the loop (commands.rs:469-471)
Finish ==
    /\ chatPc = "finish"
    /\ chatPc' = "returned_ok"
    /\ emitted' = emitted \cup {"chat-done"}
    /\ UNCHANGED <<current_iteration, approval_tx, rx, tool_calls, tool_idx, dispatches,
                   waiting_emitted, delivered, invoked, invoked_total, notice_emitted>>
    /\ UNCHANGED validation
    /\ UNCHANGED <<aggVars, lspVars, mgrVars, toolVars, mergeVars, retryVars, rpcVars, histVars, pasteVars, approveVars>>

\* approve_tool (v = TRUE) and reject_tool (v = FALSE): tx.send(v) on the
\* sender stored in ChatState (commands.rs:166-190).  A send to this run's
\* channel completes when the channel has room and the receiver lives.
BufferApproval(v) ==
    /\ approval_tx = "this"
    /\ chatPc \notin {"returned_ok", "returned_err"}
    /\ Len(rx) < 1
    /\ rx' = Append(rx, v)
    /\ UNCHANGED <<chatPc, current_iteration, approval_tx, tool_calls, tool_idx,
                   dispatches, waiting_emitted, delivered, invoked, invoked_total,
                   notice_emitted>>
    /\ UNCHANGED <<validation, emitted>>

\* The signal alone, whatever the command returns
SendApproval(v) ==
    /\ BufferApproval(v)
    /\ UNCHANGED <<aggVars, lspVars, mgrVars, toolVars, mergeVars, retryVars, rpcVars, histVars, pasteVars, approveVars>>

\* approve_tool (v = TRUE) and reject_tool (v = FALSE) with what they
\* return (commands.rs:166-190): Err without a stored sender; otherwise
\* `let _ = tx.send(v).await; Ok(())`, where the send is buffered by a
\* live channel with room, and fails unseen when the receiver is gone (the
\* run has returned) or belongs to a run not followed here
approve_tool(v) ==
    /\ approve_calls < MaxApprovals
    /\ approve_calls' = approve_calls + 1
    /\ IF approval_tx = "none"
       THEN /\ approve_result' = "No pending tool call"
            /\ UNCHANGED <<chatPc, current_iteration, approval_tx, rx, tool_calls, tool_idx,
                           dispatches, waiting_emitted, delivered, invoked, invoked_total,
                           notice_emitted, validation, emitted>>
       ELSE /\ approve_result' = "Ok"
            /\ IF approval_tx = "this" /\ chatPc \notin {"returned_ok", "returned_err"}
               THEN BufferApproval(v)
               ELSE UNCHANGED <<chatPc, current_iteration, approval_tx, rx, tool_calls,
                                tool_idx, dispatches, waiting_emitted, delivered, invoked,
                                invoked_total, notice_emitted, validation, emitted>>
    /\ UNCHANGED <<aggVars, lspVars, mgrVars, toolVars, mergeVars, retryVars, rpcVars, histVars, pasteVars>>

\* A later call of stream_chat stores its own sender (commands.rs:204-208),
\* which drops the sender of this run
NewerRun ==
    /\ approval_tx = "this"
    /\ approval_tx' = "newer"
    /\ UNCHANGED <<chatPc, current_iteration, rx, tool_calls, tool_idx,
                   dispatches, waiting_emitted, delivered, invoked, invoked_total,
                   notice_emitted>>
    /\ UNCHANGED <<validation, emitted>>
    /\ UNCHANGED <<aggVars, lspVars, mgrVars, toolVars, mergeVars, retryVars, rpcVars, histVars, pasteVars, approveVars>>

ValidationOutcomes == {"timeout", "clean", "failed", "errors"}

(***************************************************************************)
(* The conversation: api_messages of stream_chat (commands.rs:213-223),    *)
(* sent whole at every dispatch.  A message is an ApiMessage                *)
(* (ai_client.rs:14-26); an id is the turn and the place of the call in    *)
(* it; a content is named by what it says.                                 *)
(***************************************************************************)
MaxConversation == 7

NoCallId == [turn |-> 0, k |-> 0]

ApiMessage(role, content, calls, id, name) ==
    [role |-> role, content |-> content, tool_calls |-> calls,
     tool_call_id |-> id, name |-> name]

\* messages.into_iter().map(..).collect() (commands.rs:213-223)
InitialConversation == <<ApiMessage("user", "text", <<>>, NoCallId, "none")>>

\* The n tool calls of the answer of a turn (ai_client.rs:28-39)
ToolCallsOfTurn(turn, n) ==
    [k \in 1..n |-> [id |-> [turn |-> turn, k |-> k], name |-> "f"]]

\* The assistant message of an answer (ai_client.rs:381-387, 479-485)
AssistantAnswer(answer, n) ==
    ApiMessage("assistant",
               IF answer = "tools" THEN "none" ELSE "text",
               IF answer = "tools" THEN ToolCallsOfTurn(current_iteration, n) ELSE <<>>,
               NoCallId, "none")

\* assistant_msg.tool_calls of the turn (commands.rs:261): those of the
\* newest assistant message
CurrentToolCalls ==
    LET at == CHOOSE i \in 1..Len(api_messages) :
                /\ api_messages[i].role = "assistant"
                /\ \A j \in (i + 1)..Len(api_messages) : api_messages[j].role # "assistant"
    IN  api_messages[at].tool_calls

\* api_messages.push(assistant_msg.clone()) (commands.rs:258); Err(e)
\* returns before it (commands.rs:250-255)
RecordAnswer(answer, n) ==
    api_messages' = IF answer = "error" THEN api_messages
                    ELSE Append(api_messages, AssistantAnswer(answer, n))

\* The tool-role message of one call (commands.rs:275-281, 352-358)
ToolMessage(tool_call, content) ==
    ApiMessage("tool", content, <<>>, tool_call.id, tool_call.name)

\* RecordApproval with a rejection message for the first call only
RecordApprovalFirstOnly ==
    api_messages' =
        IF Approved([some |-> delivered'.some, v |-> delivered'.v])
        THEN api_messages
        ELSE Append(api_messages, ToolMessage(CurrentToolCalls[1], "rejected"))

\* for tool_call in tool_calls { api_messages.push(..rejected..) }
\* (commands.rs:270-283), when the approval was not given
RecordApproval ==
    api_messages' =
        IF Approved([some |-> delivered'.some, v |-> delivered'.v])
        THEN api_messages
        ELSE api_messages \o
             [k \in 1..Len(CurrentToolCalls) |->
                 ToolMessage(CurrentToolCalls[k], "rejected")]

\* tool_result of one call (commands.rs:298-349): "Error: Tool not found"
\* unless an enabled server lists the tool, else the result of call_tool or
\* "Error calling tool: {e}"
ToolResult(found, ok) ==
    IF ~found THEN "not_found" ELSE IF ok THEN "result" ELSE "error"

\* RecordToolResult with no message for a call that matched no tool
RecordToolResultIfFound(content) ==
    api_messages' = IF content = "not_found" THEN api_messages
                    ELSE Append(api_messages,
                                ToolMessage(CurrentToolCalls[tool_idx], content))

\* api_messages.push(..tool_result..) (commands.rs:352-358) for the call
\* being run
RecordToolResult(content) ==
    api_messages' = Append(api_messages,
                           ToolMessage(CurrentToolCalls[tool_idx], content))

\* The run with its conversation; the model asks for tools while the
\* conversation with the answer and its tool messages stays within
\* MaxConversation messages.
HistoryNext ==
    \/ ChatStart /\ api_messages' = InitialConversation /\ UNCHANGED stopVars
    \/ LoopTop /\ UNCHANGED <<api_messages, stopVars>>
    \/ \E answer \in {"error", "code", "plain"} :
            Dispatch(answer, 0) /\ RecordAnswer(answer, 0) /\ UNCHANGED stopVars
    \/ \E n \in 1..MaxToolCalls :
            /\ Len(api_messages) + 1 + n <= MaxConversation
            /\ Dispatch("tools", n)
            /\ RecordAnswer("tools", n)
            /\ UNCHANGED stopVars
    \/ RecvApproval /\ RecordApproval /\ UNCHANGED stopVars
    \/ \E found, ok \in BOOLEAN :
            InvokeTool(found) /\ RecordToolResult(ToolResult(found, ok)) /\ UNCHANGED stopVars
    \/ \E outcome \in ValidationOutcomes : Validate(outcome) /\ UNCHANGED <<api_messages, stopVars>>
    \/ Finish /\ UNCHANGED <<api_messages, stopVars>>
    \/ \E v \in BOOLEAN : SendApproval(v) /\ UNCHANGED <<api_messages, stopVars>>
    \/ NewerRun /\ UNCHANGED <<api_messages, stopVars>>

(***************************************************************************)
(* Cancellation: stream_chat spawns the loop as a task, stores the task's  *)
(* abort handle in ChatState and awaits the task (commands.rs:225-492);    *)
(* stop_chat takes the stored handle and aborts it (commands.rs:151-162).  *)
(***************************************************************************)
\* The spawned task has not finished and was not aborted
TaskRunning ==
    /\ outer \in {"spawned", "joining"}
    /\ chatPc \notin {"returned_ok", "returned_err"}
    /\ ~aborted

\* emit("chat-status", "Думаю...") (commands.rs:211) and
\* let join_handle = tokio::spawn(..) (commands.rs:227): the task starts
\* and emits the same status (commands.rs:230)
Spawn ==
    /\ outer = "not_started"
    /\ ChatStart
    /\ outer' = "spawned"
    /\ chat_status' = "Thinking..."
    /\ UNCHANGED <<api_messages, abort_handle, aborted, stopped, stream_result>>

\* *guard = Some(abort_handle) (commands.rs:474-478)
StoreHandle ==
    /\ outer = "spawned"
    /\ abort_handle' = "this"
    /\ outer' = "joining"
    /\ UNCHANGED <<chatPc, current_iteration, approval_tx, rx, tool_calls, tool_idx,
                   dispatches, waiting_emitted, delivered, invoked, invoked_total,
                   notice_emitted, validation, emitted, api_messages, aborted, stopped,
                   stream_result, chat_status>>
    /\ UNCHANGED <<aggVars, lspVars, mgrVars, toolVars, mergeVars, retryVars, rpcVars, histVars, pasteVars, approveVars>>

\* stop_chat (commands.rs:151-162): handle_guard.take() and, if a handle was
\* stored, handle.abort(), which does nothing to a task that has finished,
\* and emit("chat-status", "Generation stopped by user") (commands.rs:159)
StopChat ==
    /\ outer # "returned"
    /\ abort_handle' = "none"
    /\ aborted' = (aborted \/ (abort_handle = "this" /\ TaskRunning))
    /\ stopped' = (stopped \/ TaskRunning)
    /\ chat_status' = IF abort_handle = "this" THEN "Generation stopped by user"
                      ELSE chat_status
    /\ UNCHANGED <<chatPc, current_iteration, approval_tx, rx, tool_calls, tool_idx,
                   dispatches, waiting_emitted, delivered, invoked, invoked_total,
                   notice_emitted, validation, emitted, api_messages, outer, stream_result>>
    /\ UNCHANGED <<aggVars, lspVars, mgrVars, toolVars, mergeVars, retryVars, rpcVars, histVars, pasteVars, approveVars>>

\* match join_handle.await (commands.rs:481-492): the task's result as it
\* is (commands.rs:482), or 'Cancelled' after emit("chat-status", "")
\* (commands.rs:487) when the task was aborted
Join ==
    /\ outer = "joining"
    /\ aborted \/ chatPc \in {"returned_ok", "returned_err"}
    /\ stream_result' = IF aborted THEN "cancelled"
                        ELSE IF chatPc = "returned_ok" THEN "ok" ELSE "err"
    /\ outer' = "returned"
    /\ chat_status' = IF aborted THEN "" ELSE chat_status
    /\ UNCHANGED <<chatPc, current_iteration, approval_tx, rx, tool_calls, tool_idx,
                   dispatches, waiting_emitted, delivered, invoked, invoked_total,
                   notice_emitted, validation, emitted, api_messages, abort_handle, aborted,
                   stopped>>
    /\ UNCHANGED <<aggVars, lspVars, mgrVars, toolVars, mergeVars, retryVars, rpcVars, histVars, pasteVars, approveVars>>

\* The 'chat-status' payload left by a dispatch: none on an error of the
\* model call, which returns from the task at once (commands.rs:247-255),
\* "Ожидаю подтверждения..." before the approval is awaited
\* (commands.rs:262), "Проверка BSL кода..." before the validation
\* (commands.rs:373), none when the turn holds no tool call and no code
StatusAfterAnswer(answer) ==
    CASE answer = "tools" -> "Awaiting approval..."
      [] answer = "code" -> "Checking BSL code..."
      [] OTHER -> chat_status

\* The payload left once rx.recv() returned: "Вызов MCP..." when approved
\* (commands.rs:286), "Действие отклонено пользователем" otherwise
\* (commands.rs:271)
StatusAfterApproval ==
    IF chatPc' = "tools" THEN "Calling MCP..." ELSE "Rejected by user"

\* The payload left by the end of the validation: the time-out line
\* (commands.rs:434), or none
StatusAfterValidation(outcome) ==
    IF outcome = "timeout" THEN "Validation error: timeout (30s)" ELSE chat_status

\* The run with stop_chat: an aborted task takes no further step.  Each
\* step leaves in chat_status the payload of its last 'chat-status' event;
\* the step after the loop emits the empty one (commands.rs:469).
StopNext ==
    \/ Spawn
    \/ StoreHandle
    \/ StopChat
    \/ Join
    \/ ~aborted /\ LoopTop /\ UNCHANGED <<api_messages, stopVars>>
    \/ \E answer \in {"error", "code", "plain"} :
            /\ ~aborted
            /\ Dispatch(answer, 0)
            /\ chat_status' = StatusAfterAnswer(answer)
            /\ UNCHANGED <<api_messages, joinVars>>
    \/ \E n \in 1..MaxToolCalls :
            /\ ~aborted
            /\ Dispatch("tools", n)
            /\ chat_status' = StatusAfterAnswer("tools")
            /\ UNCHANGED <<api_messages, joinVars>>
    \/ /\ ~aborted
       /\ RecvApproval
       /\ chat_status' = StatusAfterApproval
       /\ UNCHANGED <<api_messages, joinVars>>
    \/ \E found \in BOOLEAN :
            /\ ~aborted
            /\ InvokeTool(found)
            /\ chat_status' = "Calling MCP: tool..."
            /\ UNCHANGED <<api_messages, joinVars>>
    \/ \E outcome \in ValidationOutcomes :
            /\ ~aborted
            /\ Validate(outcome)
            /\ chat_status' = StatusAfterValidation(outcome)
            /\ UNCHANGED <<api_messages, joinVars>>
    \/ /\ ~aborted
       /\ Finish
       /\ chat_status' = ""
       /\ UNCHANGED <<api_messages, joinVars>>
    \/ \E v \in BOOLEAN : SendApproval(v) /\ UNCHANGED <<api_messages, stopVars>>

(***************************************************************************)
(* The validation together with the Symbol Service it calls: the async     *)
(* block of commands.rs:377-428 is one more holder of the BSLClient mutex, *)
(* next to the commands the UI issues meanwhile.                           *)
(***************************************************************************)

\* tokio::time::timeout(..).await has not returned yet (commands.rs:375-429).
\* The commands of the UI are followed during this time, in which they
\* meet the validation; any number of them may run before the block gets
\* the mutex.
ValidationPending == chatPc = "validate"

\* What the async block makes of the answer of analyze_code
\* (commands.rs:387-427): Err leaves all_errors and ui_diagnostics empty,
\* diagnostics may or may not hold one of severity 1.
OutcomesOf(result) ==
    IF result.kind = "err" THEN {"failed"}
    ELSE IF result.diags = "some" THEN {"clean", "errors"}
    ELSE {"clean"}

\* bsl_state.lock().await completes inside the timeout (commands.rs:378-381)
ValidationBegins(t) ==
    /\ chatPc = "validate"
    /\ \A u \in Tasks : cmd[u] # "validate"
    /\ Enter(t, "validate", FALSE, FALSE, FALSE)
    /\ UNCHANGED <<aggVars, chatVars, mgrVars, toolVars, mergeVars, retryVars, rpcVars, histVars, pasteVars, approveVars>>

\* The async block returns (all_errors, ui_diagnostics) in time
\* (commands.rs:428-445)
ValidationReturns(t, outcome) ==
    /\ cmd[t] = "validate"
    /\ outcome \in OutcomesOf(loc[t].result)
    /\ Return(t)
    /\ EndValidation(outcome)
    /\ UNCHANGED <<aggVars, api_messages, stopVars, mgrVars, toolVars, mergeVars, retryVars, rpcVars, histVars, pasteVars, approveVars>>

\* The 30 s run out first (commands.rs:431-437): while the block waits for
\* the mutex, or at one of its later awaits, where it is dropped
ValidationTimesOut ==
    /\ EndValidation("timeout")
    /\ IF \E t \in Tasks : cmd[t] = "validate"
       THEN \E t \in Tasks : Cancel(t)
       ELSE UNCHANGED lspVars
    /\ UNCHANGED <<aggVars, api_messages, stopVars, mgrVars, toolVars, mergeVars, retryVars, rpcVars, histVars, pasteVars, approveVars>>

\* How one attempt of connect_async ends (bsl_client.rs connect loop)
ConnectOutcomes == {"connected", "refused", "handshake_timeout"}

\* The steps of a command between taking the mutex and returning
LspInner ==
    \/ \E t \in Tasks : Relock(t)
    \/ \E t \in Tasks, o \in ConnectOutcomes :
          ConnectAttempt(t, o)
    \/ \E t \in Tasks : BeginInitialize(t)
    \/ \E t \in Tasks, started \in BOOLEAN :
          AfterConnect(t, started)
    \/ \E t \in Tasks, sent \in BOOLEAN : SendRequest(t, sent)
    \/ \E t \in Tasks, d \in {0, MESSAGE_WAIT_S} : \E m \in Incoming(loc[t].id) :
          SrRead(t, m, d)
    \/ \E t \in Tasks : ReplyToServer(t, "sr_reply", "sr_wait")
    \/ \E t \in Tasks : SrTick(t)
    \/ \E t \in Tasks, how \in {"error", "closed", "timeout"} :
          SrFail(t, how)
    \/ \E t \in Tasks : AfterRequest(t)
    \/ \E t \in Tasks, sent \in BOOLEAN : InitNotify(t, sent)
    \/ \E t \in Tasks : \E m \in Incoming(request_id - 1) :
          DrainRead(t, m)
    \/ \E t \in Tasks : ReplyToServer(t, "drain_reply", "drain")
    \/ \E t \in Tasks : DrainTimeout(t)
    \/ \E t \in Tasks, sent \in BOOLEAN : AnOpen(t, sent)
    \/ \E t \in Tasks, sent \in BOOLEAN, diags \in {"empty", "some"} :
          AnClosePull(t, sent, diags)
    \/ \E t \in Tasks : PushLock(t)
    \/ \E t \in Tasks : \E m \in Incoming(request_id - 1) :
          PushRead(t, m)
    \/ \E t \in Tasks : ReplyToServer(t, "push_reply", "push_wait")
    \/ \E t \in Tasks, how \in {"error", "closed"} :
          PushFail(t, how)
    \/ \E t \in Tasks : PushTimeout(t)
    \/ \E t \in Tasks, sent \in BOOLEAN : FmtOpen(t, sent)
    \/ \E t \in Tasks, sent \in BOOLEAN : FmtClose(t, sent)

ValidateNext ==
    \/ ChatStart /\ api_messages' = InitialConversation /\ UNCHANGED stopVars
    \/ LoopTop /\ UNCHANGED <<api_messages, stopVars>>
    \/ \E answer \in {"error", "code", "plain"} :
            Dispatch(answer, 0) /\ RecordAnswer(answer, 0) /\ UNCHANGED stopVars
    \/ Finish /\ UNCHANGED <<api_messages, stopVars>>
    \/ \E t \in Tasks : ValidationBegins(t)
    \/ \E t \in Tasks, outcome \in ValidationOutcomes : ValidationReturns(t, outcome)
    \/ ValidationTimesOut
    \/ \E t \in Tasks, c \in Commands \ {"validate"}, started, enabled, jar \in BOOLEAN :
          ValidationPending /\ Enter(t, c, started, enabled, jar) /\ UNCHANGED <<aggVars, chatVars, mgrVars, toolVars, mergeVars, retryVars, rpcVars, histVars, pasteVars, approveVars>>
    \/ \E t \in Tasks :
          ValidationPending /\ cmd[t] # "validate" /\ Return(t) /\ UNCHANGED <<aggVars, chatVars, mgrVars, toolVars, mergeVars, retryVars, rpcVars, histVars, pasteVars, approveVars>>
    \/ ValidationPending /\ LspInner /\ UNCHANGED <<aggVars, chatVars, mgrVars, toolVars, mergeVars, retryVars, rpcVars, histVars, pasteVars, approveVars>>

ChatInit ==
    /\ ChatStill
    /\ AggStill
    /\ LspStill
    /\ ApproveStill
    /\ PasteStill
    /\ HistStill
    /\ RpcStill
    /\ RetryStill
    /\ MergeStill
    /\ ToolStill
    /\ McpStill

\* The run with the conversation left aside
ChatNext ==
    \/ ChatStart /\ UNCHANGED <<api_messages, stopVars>>
    \/ LoopTop /\ UNCHANGED <<api_messages, stopVars>>
    \/ \E answer \in {"error", "code", "plain"} : Dispatch(answer, 0) /\ UNCHANGED <<api_messages, stopVars>>
    \/ \E n \in 1..MaxToolCalls : Dispatch("tools", n) /\ UNCHANGED <<api_messages, stopVars>>
    \/ RecvApproval /\ UNCHANGED <<api_messages, stopVars>>
    \/ \E found \in BOOLEAN : InvokeTool(found) /\ UNCHANGED <<api_messages, stopVars>>
    \/ \E outcome \in ValidationOutcomes : Validate(outcome) /\ UNCHANGED <<api_messages, stopVars>>
    \/ Finish /\ UNCHANGED <<api_messages, stopVars>>
    \/ \E v \in BOOLEAN : SendApproval(v) /\ UNCHANGED <<api_messages, stopVars>>
    \/ NewerRun /\ UNCHANGED <<api_messages, stopVars>>

SpecChat == ChatInit /\ [][ChatNext]_vars

\* The run with the two approval commands as the UI calls them
ApproveNext ==
    \/ ChatStart /\ UNCHANGED <<api_messages, stopVars>>
    \/ LoopTop /\ UNCHANGED <<api_messages, stopVars>>
    \/ \E answer \in {"error", "code", "plain"} : Dispatch(answer, 0) /\ UNCHANGED <<api_messages, stopVars>>
    \/ Dispatch("tools", 1) /\ UNCHANGED <<api_messages, stopVars>>
    \/ RecvApproval /\ UNCHANGED <<api_messages, stopVars>>
    \/ InvokeTool(TRUE) /\ UNCHANGED <<api_messages, stopVars>>
    \/ Validate("clean") /\ UNCHANGED <<api_messages, stopVars>>
    \/ Finish /\ UNCHANGED <<api_messages, stopVars>>
    \/ \E v \in BOOLEAN : approve_tool(v) /\ UNCHANGED <<api_messages, stopVars>>
    \/ NewerRun /\ UNCHANGED <<api_messages, stopVars>>

SpecApprove == ChatInit /\ [][ApproveNext]_vars

SpecHistory == ChatInit /\ [][HistoryNext]_vars

SpecStop == ChatInit /\ [][StopNext]_vars

SpecValidate == ChatInit /\ [][ValidateNext]_vars

LspInit == LspStill /\ AggStill /\ ChatStill /\ McpStill /\ ToolStill /\ MergeStill /\ RetryStill /\ RpcStill /\ HistStill /\ PasteStill /\ ApproveStill

LspNext ==
    \/ \E t \in Tasks, c \in Commands, started, enabled, jar \in BOOLEAN :
          Enter(t, c, started, enabled, jar) /\ UNCHANGED <<aggVars, chatVars, mgrVars, toolVars, mergeVars, retryVars, rpcVars, histVars, pasteVars, approveVars>>
    \/ \E t \in Tasks : Relock(t) /\ UNCHANGED <<aggVars, chatVars, mgrVars, toolVars, mergeVars, retryVars, rpcVars, histVars, pasteVars, approveVars>>
    \/ \E t \in Tasks, o \in ConnectOutcomes :
          ConnectAttempt(t, o) /\ UNCHANGED <<aggVars, chatVars, mgrVars, toolVars, mergeVars, retryVars, rpcVars, histVars, pasteVars, approveVars>>
    \/ \E t \in Tasks : BeginInitialize(t) /\ UNCHANGED <<aggVars, chatVars, mgrVars, toolVars, mergeVars, retryVars, rpcVars, histVars, pasteVars, approveVars>>
    \/ \E t \in Tasks, started \in BOOLEAN :
          AfterConnect(t, started) /\ UNCHANGED <<aggVars, chatVars, mgrVars, toolVars, mergeVars, retryVars, rpcVars, histVars, pasteVars, approveVars>>
    \/ \E t \in Tasks, sent \in BOOLEAN : SendRequest(t, sent) /\ UNCHANGED <<aggVars, chatVars, mgrVars, toolVars, mergeVars, retryVars, rpcVars, histVars, pasteVars, approveVars>>
    \/ \E t \in Tasks, d \in {0, MESSAGE_WAIT_S} : \E m \in Incoming(loc[t].id) :
          SrRead(t, m, d) /\ UNCHANGED <<aggVars, chatVars, mgrVars, toolVars, mergeVars, retryVars, rpcVars, histVars, pasteVars, approveVars>>
    \/ \E t \in Tasks : ReplyToServer(t, "sr_reply", "sr_wait") /\ UNCHANGED <<aggVars, chatVars, mgrVars, toolVars, mergeVars, retryVars, rpcVars, histVars, pasteVars, approveVars>>
    \/ \E t \in Tasks : SrTick(t) /\ UNCHANGED <<aggVars, chatVars, mgrVars, toolVars, mergeVars, retryVars, rpcVars, histVars, pasteVars, approveVars>>
    \/ \E t \in Tasks, how \in {"error", "closed", "timeout"} :
          SrFail(t, how) /\ UNCHANGED <<aggVars, chatVars, mgrVars, toolVars, mergeVars, retryVars, rpcVars, histVars, pasteVars, approveVars>>
    \/ \E t \in Tasks : AfterRequest(t) /\ UNCHANGED <<aggVars, chatVars, mgrVars, toolVars, mergeVars, retryVars, rpcVars, histVars, pasteVars, approveVars>>
    \/ \E t \in Tasks, sent \in BOOLEAN : InitNotify(t, sent) /\ UNCHANGED <<aggVars, chatVars, mgrVars, toolVars, mergeVars, retryVars, rpcVars, histVars, pasteVars, approveVars>>
    \/ \E t \in Tasks : \E m \in Incoming(request_id - 1) :
          DrainRead(t, m) /\ UNCHANGED <<aggVars, chatVars, mgrVars, toolVars, mergeVars, retryVars, rpcVars, histVars, pasteVars, approveVars>>
    \/ \E t \in Tasks : ReplyToServer(t, "drain_reply", "drain") /\ UNCHANGED <<aggVars, chatVars, mgrVars, toolVars, mergeVars, retryVars, rpcVars, histVars, pasteVars, approveVars>>
    \/ \E t \in Tasks : DrainTimeout(t) /\ UNCHANGED <<aggVars, chatVars, mgrVars, toolVars, mergeVars, retryVars, rpcVars, histVars, pasteVars, approveVars>>
    \/ \E t \in Tasks, sent \in BOOLEAN : AnOpen(t, sent) /\ UNCHANGED <<aggVars, chatVars, mgrVars, toolVars, mergeVars, retryVars, rpcVars, histVars, pasteVars, approveVars>>
    \/ \E t \in Tasks, sent \in BOOLEAN, diags \in {"empty", "some"} :
          AnClosePull(t, sent, diags) /\ UNCHANGED <<aggVars, chatVars, mgrVars, toolVars, mergeVars, retryVars, rpcVars, histVars, pasteVars, approveVars>>
    \/ \E t \in Tasks : PushLock(t) /\ UNCHANGED <<aggVars, chatVars, mgrVars, toolVars, mergeVars, retryVars, rpcVars, histVars, pasteVars, approveVars>>
    \/ \E t \in Tasks : \E m \in Incoming(request_id - 1) :
          PushRead(t, m) /\ UNCHANGED <<aggVars, chatVars, mgrVars, toolVars, mergeVars, retryVars, rpcVars, histVars, pasteVars, approveVars>>
    \/ \E t \in Tasks : ReplyToServer(t, "push_reply", "push_wait") /\ UNCHANGED <<aggVars, chatVars, mgrVars, toolVars, mergeVars, retryVars, rpcVars, histVars, pasteVars, approveVars>>
    \/ \E t \in Tasks, how \in {"error", "closed"} :
          PushFail(t, how) /\ UNCHANGED <<aggVars, chatVars, mgrVars, toolVars, mergeVars, retryVars, rpcVars, histVars, pasteVars, approveVars>>
    \/ \E t \in Tasks : PushTimeout(t) /\ UNCHANGED <<aggVars, chatVars, mgrVars, toolVars, mergeVars, retryVars, rpcVars, histVars, pasteVars, approveVars>>
    \/ \E t \in Tasks, sent \in BOOLEAN : FmtOpen(t, sent) /\ UNCHANGED <<aggVars, chatVars, mgrVars, toolVars, mergeVars, retryVars, rpcVars, histVars, pasteVars, approveVars>>
    \/ \E t \in Tasks, sent \in BOOLEAN : FmtClose(t, sent) /\ UNCHANGED <<aggVars, chatVars, mgrVars, toolVars, mergeVars, retryVars, rpcVars, histVars, pasteVars, approveVars>>
    \/ \E t \in Tasks : Return(t) /\ UNCHANGED <<aggVars, chatVars, mgrVars, toolVars, mergeVars, retryVars, rpcVars, histVars, pasteVars, approveVars>>
    \/ \E t \in Tasks : Cancel(t) /\ UNCHANGED <<aggVars, chatVars, mgrVars, toolVars, mergeVars, retryVars, rpcVars, histVars, pasteVars, approveVars>>

SpecLsp == LspInit /\ [][LspNext]_vars

\* format_bsl alone: the command that calls send_request twice, for
\* `initialize` inside connect and for `textDocument/formatting`
WaitNext ==
    \/ \E t \in Tasks :
          Enter(t, "format_bsl", FALSE, FALSE, FALSE) /\ UNCHANGED <<aggVars, chatVars, mgrVars, toolVars, mergeVars, retryVars, rpcVars, histVars, pasteVars, approveVars>>
    \/ \E t \in Tasks, o \in ConnectOutcomes :
          ConnectAttempt(t, o) /\ UNCHANGED <<aggVars, chatVars, mgrVars, toolVars, mergeVars, retryVars, rpcVars, histVars, pasteVars, approveVars>>
    \/ \E t \in Tasks : BeginInitialize(t) /\ UNCHANGED <<aggVars, chatVars, mgrVars, toolVars, mergeVars, retryVars, rpcVars, histVars, pasteVars, approveVars>>
    \/ \E t \in Tasks, started \in BOOLEAN :
          AfterConnect(t, started) /\ UNCHANGED <<aggVars, chatVars, mgrVars, toolVars, mergeVars, retryVars, rpcVars, histVars, pasteVars, approveVars>>
    \/ \E t \in Tasks, sent \in BOOLEAN : SendRequest(t, sent) /\ UNCHANGED <<aggVars, chatVars, mgrVars, toolVars, mergeVars, retryVars, rpcVars, histVars, pasteVars, approveVars>>
    \/ \E t \in Tasks, d \in {0, MESSAGE_WAIT_S} : \E m \in Incoming(loc[t].id) :
          SrRead(t, m, d) /\ UNCHANGED <<aggVars, chatVars, mgrVars, toolVars, mergeVars, retryVars, rpcVars, histVars, pasteVars, approveVars>>
    \/ \E t \in Tasks : ReplyToServer(t, "sr_reply", "sr_wait") /\ UNCHANGED <<aggVars, chatVars, mgrVars, toolVars, mergeVars, retryVars, rpcVars, histVars, pasteVars, approveVars>>
    \/ \E t \in Tasks : SrTick(t) /\ UNCHANGED <<aggVars, chatVars, mgrVars, toolVars, mergeVars, retryVars, rpcVars, histVars, pasteVars, approveVars>>
    \/ \E t \in Tasks, how \in {"error", "closed", "timeout"} :
          SrFail(t, how) /\ UNCHANGED <<aggVars, chatVars, mgrVars, toolVars, mergeVars, retryVars, rpcVars, histVars, pasteVars, approveVars>>
    \/ \E t \in Tasks : AfterRequest(t) /\ UNCHANGED <<aggVars, chatVars, mgrVars, toolVars, mergeVars, retryVars, rpcVars, histVars, pasteVars, approveVars>>
    \/ \E t \in Tasks, sent \in BOOLEAN : InitNotify(t, sent) /\ UNCHANGED <<aggVars, chatVars, mgrVars, toolVars, mergeVars, retryVars, rpcVars, histVars, pasteVars, approveVars>>
    \/ \E t \in Tasks : \E m \in Incoming(request_id - 1) :
          DrainRead(t, m) /\ UNCHANGED <<aggVars, chatVars, mgrVars, toolVars, mergeVars, retryVars, rpcVars, histVars, pasteVars, approveVars>>
    \/ \E t \in Tasks : ReplyToServer(t, "drain_reply", "drain") /\ UNCHANGED <<aggVars, chatVars, mgrVars, toolVars, mergeVars, retryVars, rpcVars, histVars, pasteVars, approveVars>>
    \/ \E t \in Tasks : DrainTimeout(t) /\ UNCHANGED <<aggVars, chatVars, mgrVars, toolVars, mergeVars, retryVars, rpcVars, histVars, pasteVars, approveVars>>
    \/ \E t \in Tasks, sent \in BOOLEAN : FmtOpen(t, sent) /\ UNCHANGED <<aggVars, chatVars, mgrVars, toolVars, mergeVars, retryVars, rpcVars, histVars, pasteVars, approveVars>>
    \/ \E t \in Tasks, sent \in BOOLEAN : FmtClose(t, sent) /\ UNCHANGED <<aggVars, chatVars, mgrVars, toolVars, mergeVars, retryVars, rpcVars, histVars, pasteVars, approveVars>>
    \/ \E t \in Tasks : Return(t) /\ UNCHANGED <<aggVars, chatVars, mgrVars, toolVars, mergeVars, retryVars, rpcVars, histVars, pasteVars, approveVars>>

\* Time passes while send_request waits: a tick without a message, or a
\* message that took a tick to arrive
TimePasses(t) ==
    (SrTick(t) \/ \E m \in Incoming(loc[t].id) : SrRead(t, m, MESSAGE_WAIT_S)) /\ UNCHANGED <<aggVars, chatVars, mgrVars, toolVars, mergeVars, retryVars, rpcVars, histVars, pasteVars, approveVars>>

\* The wait of send_request is not suspended for ever: time passes while it
\* waits, the answer to a server request gets sent, and the loop head is
\* reached again once the budget is used up
WaitFairness ==
    \A t \in Tasks :
        /\ SF_vars(TimePasses(t))
        /\ WF_vars(ReplyToServer(t, "sr_reply", "sr_wait") /\ UNCHANGED <<aggVars, chatVars, mgrVars, toolVars, mergeVars, retryVars, rpcVars, histVars, pasteVars, approveVars>>)
        /\ WF_vars(SrFail(t, "timeout") /\ UNCHANGED <<aggVars, chatVars, mgrVars, toolVars, mergeVars, retryVars, rpcVars, histVars, pasteVars, approveVars>>)

SpecWait == LspInit /\ [][WaitNext]_vars /\ WaitFairness

McpInit ==
    /\ McpStill
    /\ AggStill
    /\ ChatStill
    /\ LspStill
    /\ ApproveStill
    /\ PasteStill
    /\ HistStill
    /\ RpcStill
    /\ RetryStill
    /\ MergeStill
    /\ ToolStill

McpNext ==
    \/ \E settings \in McpSettings, can_start \in SUBSET ServerIds :
            Reconfigure(settings, can_start)
    \/ \E config \in McpServerConfigs, can_start \in BOOLEAN : GetClient(config, can_start)
    \/ \E s \in Addresses : ChildExits(s)
    \/ HandlerChanges

SpecMcp == McpInit /\ [][McpNext]_vars

ToolCallInit ==
    /\ mcp_servers \in ToolSettings
    /\ bsl_enabled \in BOOLEAN
    /\ offers \in [ToolServerIds -> ToolLists]
    /\ tool_name \in ToolNames
    /\ all_configs = <<>>
    /\ cursor = 0
    /\ listed = <<>>
    /\ invoked_on = 0
    /\ called_as = <<>>
    /\ tool_result = NoToolResult
    /\ AggStill
    /\ ChatStill
    /\ LspStill
    /\ ApproveStill
    /\ PasteStill
    /\ HistStill
    /\ RpcStill
    /\ RetryStill
    /\ McpStill
    /\ MergeStill

ToolCallNext ==
    \/ BeginToolCall
    \/ \E reached, ok \in BOOLEAN : Probe(reached, ok)
    \/ NotFound

SpecToolCall == ToolCallInit /\ [][ToolCallNext]_vars

MergeInit ==
    /\ original_text \in Texts
    /\ ai_text \in Texts
    /\ orig_range \in Ranges(original_text)
    /\ ai_range \in Ranges(ai_text)
    /\ patched_text = NotReturned
    /\ AggStill
    /\ ChatStill
    /\ LspStill
    /\ ApproveStill
    /\ PasteStill
    /\ HistStill
    /\ RpcStill
    /\ RetryStill
    /\ McpStill
    /\ ToolStill

MergeNext == Reconcile

SpecMerge == MergeInit /\ [][MergeNext]_vars

RetryInit ==
    /\ RetryStill
    /\ AggStill
    /\ ChatStill
    /\ LspStill
    /\ ApproveStill
    /\ PasteStill
    /\ HistStill
    /\ RpcStill
    /\ McpStill
    /\ ToolStill
    /\ MergeStill

RetryNext ==
    \/ \E answer \in Answers : SendModelRequest(answer)
    \/ RetrySleep

SpecRetry == RetryInit /\ [][RetryNext]_vars

RpcInit ==
    /\ RpcStill
    /\ AggStill
    /\ ChatStill
    /\ LspStill
    /\ ApproveStill
    /\ PasteStill
    /\ HistStill
    /\ McpStill
    /\ ToolStill
    /\ MergeStill
    /\ RetryStill

RpcNext ==
    \/ \E c \in Callers : DrawId(c)
    \/ \E c \in Callers : InsertPending(c)
    \/ \E c \in Callers, written \in BOOLEAN : SendToWriter(c, written)
    \/ \E c \in Callers : SendFails(c)
    \/ \E c \in Callers : Receive(c)
    \/ \E c \in Callers : TimeoutFires(c)
    \/ \E c \in Callers : ForgetPending(c)
    \/ \E c \in Callers : Abandon(c)
    \/ \E line \in StdoutLines : ReaderLine(line)
    \/ ReaderStops

SpecRpc == RpcInit /\ [][RpcNext]_vars

HistInit ==
    /\ HistStill
    /\ AggStill
    /\ ChatStill
    /\ LspStill
    /\ ApproveStill
    /\ PasteStill
    /\ McpStill
    /\ ToolStill
    /\ MergeStill
    /\ RetryStill
    /\ RpcStill

HistNext ==
    \/ \E hwnd \in Hwnds : save_snapshot(hwnd, saves + 1)
    \/ \E hwnd \in Hwnds : pop_snapshot(hwnd)

SpecSnapshots == HistInit /\ [][HistNext]_vars

PasteInit ==
    /\ document \in [Hwnds -> DocTexts]
    /\ pastes = 0
    /\ paste_op = NoPaste
    /\ HistStill
    /\ AggStill
    /\ ChatStill
    /\ LspStill
    /\ ApproveStill
    /\ McpStill
    /\ ToolStill
    /\ MergeStill
    /\ RetryStill
    /\ RpcStill

PasteNext ==
    \/ \E hwnd \in Hwnds, code \in DocTexts,
          original_content \in {NoText} \cup {[some |-> TRUE, v |-> t] : t \in DocTexts},
          read_ok \in BOOLEAN, paste_ok \in BOOLEAN :
            paste_code_to_configurator(hwnd, code, original_content, read_ok, paste_ok)
    \/ \E hwnd \in Hwnds, paste_ok \in BOOLEAN : undo_last_change(hwnd, paste_ok)

SpecPaste == PasteInit /\ [][PasteNext]_vars

(***************************************************************************)
(* C1.  While send_request waits for the response to its request N, every  *)
(* incoming message with both a method and an id is answered with that id  *)
(* before the next message is read, and never ends the wait: send_request  *)
(* returns only on a message with id N and no method, or on a transport    *)
(* error, close or timeout.                                                *)
(***************************************************************************)
C1_ServerRequestsAnsweredInline ==
    \A t \in Tasks :
        /\ pc[t] = "sr_wait" => loc[t].owed = NoId
        /\ pc[t] = "sr_ret" =>
              \/ /\ loc[t].cause = "response"
                 /\ loc[t].from = IntId(loc[t].id)
                 /\ loc[t].from_method = NoMethod
              \/ loc[t].cause \in {"error", "closed", "timeout",
                                   "not_connected", "send_failed"}

(***************************************************************************)
(* C2.  No tool of a turn is invoked unless, after the approval request of *)
(* that turn was emitted, the approval channel delivered true; when it     *)
(* delivers false or is closed, none of the turn's tools is invoked.       *)
(***************************************************************************)
C2_ToolsOnlyAfterApproval ==
    /\ invoked > 0 =>
          delivered.some /\ delivered.v /\ delivered.after_request /\ waiting_emitted
    /\ chatPc = "tools" => delivered.some /\ delivered.v /\ delivered.after_request

C2_Witness ==
    invoked = 2 /\ delivered.v /\ chatPc = "loop"

(***************************************************************************)
(* C3.  One run performs at most 7 model dispatches; when the ceiling is   *)
(* exceeded the notice is emitted, no further dispatch or tool invocation  *)
(* is performed, and the run stops.                                        *)
(***************************************************************************)
C3_IterationCeiling ==
    /\ [](dispatches <= 7)
    /\ [](notice_emitted => chatPc \in {"finish", "returned_ok"})
    /\ [](current_iteration > 7 => notice_emitted)
    /\ [][notice_emitted => (dispatches' = dispatches /\ invoked_total' = invoked_total)]_vars

C3_Witness ==
    notice_emitted /\ chatPc = "returned_ok" /\ dispatches = 7 /\ invoked_total > 0

(***************************************************************************)
(* C4.  For every event stream and every way of cutting it into chunks,    *)
(* stream_chat_completion returns the same assistant message (content and  *)
(* tool calls) as when the stream is fed as one chunk.                     *)
(***************************************************************************)
C4_ChunkingInvariant ==
    aggResult.kind = "ok" => aggResult = FedWhole(stream)

(***************************************************************************)
(* C5.  Every call of analyze_code that sent didOpen sends didClose before *)
(* it returns, on every exit path: pull result, push result, diagnostics   *)
(* timeout, and the error returns of the diagnostics request.              *)
(***************************************************************************)
C5_DidCloseOnEveryExit ==
    \A t \in Tasks : pc[t] = "ret" /\ loc[t].opened => loc[t].closes >= 1

Touching(t) == pc[t] \notin {"idle", "reconnect_sleep", "done"}

\* Task t holds the web socket: it has written to it or reads from it
OnConnection(t) ==
    pc[t] \in {"sr_wait", "sr_reply", "drain", "drain_reply", "push_wait", "push_reply"}

(***************************************************************************)
(* C7 as amended.  Whatever commands run concurrently, at most one task at *)
(* a time uses the connection: from the sending of a request until its     *)
(* send_request returns (response, error, close, timeout) or is dropped,   *)
(* no other task writes to or reads from the connection.                   *)
(***************************************************************************)
C7_OneTaskOnConnection ==
    \A t, u \in Tasks :
        t # u =>
            /\ ~(Touching(t) /\ Touching(u))
            /\ OnConnection(t) => ws_lock = t /\ client_lock = t /\ ~OnConnection(u)

C7_Witness ==
    \E t, u \in Tasks :
        /\ pc[t] = "reconnect_sleep"
        /\ pc[u] = "sr_wait" /\ loc[u].caller = "diagnostic"
        /\ unanswered = {loc[u].id}

\* C7 as stated: at most one request/response pair is in flight at any time
C7_OnePairInFlight == Cardinality(unanswered) <= 1

(***************************************************************************)
(* C8.  Request ids strictly increase and are never reused, and the result *)
(* or LSP error returned by send_request is taken only from the message    *)
(* whose id equals the id it sent: a late response to an earlier request   *)
(* is never returned as the answer to a later one.                         *)
(***************************************************************************)
C8_IdsIncreaseAndMatch ==
    /\ ~id_reused
    /\ max_id_sent < request_id
    /\ \A t \in Tasks :
          /\ pc[t] \in {"sr_wait", "sr_reply"} => loc[t].id = max_id_sent
          /\ pc[t] = "sr_ret" /\ loc[t].cause = "response" =>
                loc[t].from = IntId(loc[t].id)

C8_Witness ==
    \E t \in Tasks :
        /\ pc[t] = "sr_ret" /\ loc[t].cause = "response"
        /\ loc[t].stale
        /\ loc[t].id >= 2
        /\ loc[t].from = IntId(loc[t].id)

(***************************************************************************)
(* C9 as amended.  connect makes at most 30 connection attempts with the   *)
(* same fixed delay between them, counting refused connections and         *)
(* handshake timeouts alike; when all fail it returns an error and leaves  *)
(* ws as it was at the call: not connected when it was called on a client  *)
(* that was not connected.                                                 *)
(***************************************************************************)
C9_BoundedConnect ==
    \A t \in Tasks :
        /\ loc[t].attempts <= 30
        /\ loc[t].retries <= loc[t].attempts
        /\ Cardinality(loc[t].delays) <= 1
        /\ pc[t] = "connect_ret" /\ loc[t].conn_cause = "exhausted" =>
              /\ ~loc[t].conn_ok
              /\ loc[t].attempts = 30
              /\ ws = loc[t].ws_before

C9_Witness ==
    \E t \in Tasks :
        /\ pc[t] = "connect_ret" /\ loc[t].conn_cause = "exhausted"
        /\ loc[t].attempts = 30 /\ loc[t].delays = {500}
        /\ ~loc[t].ws_before /\ ~ws

\* C9 as stated: when all attempts fail the client is left not connected
C9_FailedConnectLeavesDisconnected ==
    \A t \in Tasks :
        pc[t] = "connect_ret" /\ loc[t].conn_cause = "exhausted" => ~ws

(***************************************************************************)
(* C10.  is_connected() is true only after both the handshake and          *)
(* `initialize` completed successfully: when initialize fails or times     *)
(* out, connect returns an error and the client is left Disconnected.      *)
(***************************************************************************)
C10_ConnectedOnlyAfterInitialize ==
    /\ client_lock = 0 /\ ws => init_ok
    /\ \A t \in Tasks :
          pc[t] = "connect_ret" /\ loc[t].conn_cause = "initialize" => ~ws

\* The events of a text: the pieces ended by a blank line (ai_client.rs:374-376)
RECURSIVE EventsOf(_)
EventsOf(text) ==
    LET pos == Find(text, <<"n", "n">>)
    IN  IF pos = 0 THEN <<>>
        ELSE <<Take(text, pos - 1)>> \o EventsOf(Drop(text, pos + 1))

\* The lines of a run of events, in order (ai_client.rs:378)
RECURSIVE LinesOfEvents(_)
LinesOfEvents(evs) ==
    IF evs = <<>> THEN <<>> ELSE Lines(Head(evs)) \o LinesOfEvents(Tail(evs))

\* The lines of the events received so far
ReceivedLines == LinesOfEvents(EventsOf(decoded))

\* data == "[DONE]" (ai_client.rs:379-380)
SentinelLine == <<"P", "D">>

\* The place of the first sentinel line, 0 when there is none
FirstSentinel(lines) ==
    IF \E i \in 1..Len(lines) : lines[i] = SentinelLine
    THEN CHOOSE i \in 1..Len(lines) :
            /\ lines[i] = SentinelLine
            /\ \A j \in 1..(i - 1) : lines[j] # SentinelLine
    ELSE 0

\* The message made of what the given lines accumulate
Accumulated(lines) ==
    LET st == ProcessLines(AggStart, lines)
    IN  AssistantMessage(st.full_content, st.calls)

(***************************************************************************)
(* C11.  Once a data line holding the sentinel is processed, the function  *)
(* has returned Ok with exactly the content and tool calls accumulated     *)
(* from the data lines before it; the data lines after it in the same      *)
(* event, and whatever was received later, are not in the message.         *)
(***************************************************************************)
C11_SentinelFinalizes ==
    LET lines == ReceivedLines
        at    == FirstSentinel(lines)
    IN  at # 0 => aggResult = Accumulated(Take(lines, at - 1))

\* returned at a sentinel that has a data line before it and one after it in
\* its event, with bytes of the body not yet received
C11_Witness ==
    /\ Find(decoded, <<"P", "a", "n", "P", "D", "n", "P", "a", "n", "n">>) # 0
    /\ aggResult = AssistantMessage(<<"a">>, <<>>)
    /\ fed < Len(stream)

\* The content stream of a turn: the content fragments of the deltas before
\* the sentinel, one after the other (ai_client.rs:390-394)
RECURSIVE ContentStream(_)
ContentStream(lines) ==
    IF lines = <<>> \/ Head(lines) = SentinelLine THEN <<>>
    ELSE (IF StartsWith(Head(lines), <<"P">>) /\ ParsesAsDelta(Tail(Head(lines)))
          THEN DeltaContent(Tail(Head(lines)))
          ELSE <<>>) \o ContentStream(Tail(lines))

\* The two channels of a content stream taken as one text: what lies between
\* a start marker and the next end marker is thinking, the rest is visible.
Routed(content) ==
    ApplyContent([full_content |-> <<>>, is_thinking |-> FALSE, thinking |-> <<>>],
                 content)

(***************************************************************************)
(* C12.  When the turn is returned, the text of the content stream between *)
(* a start marker and the matching end marker is not in the visible        *)
(* content and is what the thinking channel got, wherever the fragment and *)
(* chunk boundaries fall; the text outside the markers is the visible      *)
(* content, in arrival order.                                              *)
(***************************************************************************)
C12_ThinkingNeverVisible ==
    aggResult.kind = "ok" =>
        LET r == Routed(ContentStream(ReceivedLines))
        IN  /\ full_content = r.full_content
            /\ thinking_emitted = r.thinking

\* The tool-call fragments of a turn, in arrival order: those of the deltas
\* before the sentinel (ai_client.rs:433-434)
RECURSIVE FragmentStream(_)
FragmentStream(lines) ==
    IF lines = <<>> \/ Head(lines) = SentinelLine THEN <<>>
    ELSE (IF StartsWith(Head(lines), <<"P">>) /\ ParsesAsDelta(Tail(Head(lines)))
          THEN DeltaToolCalls(Tail(Head(lines)))
          ELSE <<>>) \o FragmentStream(Tail(lines))

\* The fragments of a run, field by field, one after the other
RECURSIVE Joined(_)
Joined(toks) ==
    IF toks = <<>> THEN EmptyToolCall
    ELSE LET f == ToolFrag(Head(toks))
             r == Joined(Tail(toks))
         IN  [id        |-> f.id \o r.id,
              name      |-> f.name \o r.name,
              arguments |-> f.arguments \o r.arguments]

\* The tool calls of the returned message
ReturnedCalls == IF aggResult.tool_calls.some THEN aggResult.tool_calls.v ELSE <<>>

(***************************************************************************)
(* C13 as stated.  In the finished turn tool call i is, field by field,    *)
(* the concatenation in arrival order of the fragments that carried index  *)
(* i.                                                                      *)
(***************************************************************************)
C13_CarriedIndexOnly ==
    aggResult.kind = "ok" =>
        LET frags == FragmentStream(ReceivedLines)
        IN  \A i \in 0..(Len(ReturnedCalls) - 1) :
                ReturnedCalls[i + 1] =
                    Joined(SelectSeq(frags, LAMBDA tok : ToolFrag(tok).index = Index(i)))

(***************************************************************************)
(* C13 as amended.  In the finished turn tool call i is, field by field,   *)
(* the concatenation in arrival order of the fragments of index i, a       *)
(* fragment without an index being a fragment of index 0, whatever the     *)
(* interleaving with the fragments of other indices; every fragment's      *)
(* index has a tool call.                                                  *)
(***************************************************************************)
C13_PerIndexConcatenation ==
    aggResult.kind = "ok" =>
        LET frags == FragmentStream(ReceivedLines)
        IN  /\ \A i \in 0..(Len(ReturnedCalls) - 1) :
                    ReturnedCalls[i + 1] =
                        Joined(SelectSeq(frags,
                                         LAMBDA tok : UnwrapOr0(ToolFrag(tok).index) = i))
            /\ \A k \in 1..Len(frags) :
                    UnwrapOr0(ToolFrag(frags[k]).index) < Len(ReturnedCalls)

\* returned with fragments of index 0 around a fragment of index 1
C13_Witness ==
    /\ aggResult.kind = "ok"
    /\ FragmentStream(ReceivedLines) = <<"t0", "u1", "u0">>
    /\ Len(ReturnedCalls) = 2
    /\ ReturnedCalls[1].arguments = <<"x">>

\* The indices of a fragment stream in the order in which each first gets a
\* fragment with a non-empty id or name; seen holds those already listed.
RECURSIVE FirstNamed(_, _)
FirstNamed(frags, seen) ==
    IF frags = <<>> THEN <<>>
    ELSE LET f == ToolFrag(Head(frags))
             i == UnwrapOr0(f.index)
         IN  IF i \notin seen /\ (f.id # <<>> \/ f.name # <<>>)
             THEN <<i>> \o FirstNamed(Tail(frags), seen \cup {i})
             ELSE FirstNamed(Tail(frags), seen)

(***************************************************************************)
(* C14.  At every moment the 'tool-call-started' events emitted so far are *)
(* one per index whose accumulator has got an id or a name, in the order   *)
(* of the fragments that first gave them one: none for an index that has   *)
(* only arguments or only padding so far, none twice.                      *)
(***************************************************************************)
C14_StartedOncePerIndex ==
    /\ started_emitted = FirstNamed(FragmentStream(ReceivedLines), {})
    /\ \A i \in 0..(Len(accumulated_tool_calls) - 1) :
            (\E k \in 1..Len(started_emitted) : started_emitted[k] = i)
                <=> (accumulated_tool_calls[i + 1].id # <<>>
                        \/ accumulated_tool_calls[i + 1].name # <<>>)

\* index 0 got arguments first, index 1 got its id, then index 0 got its id
C14_Witness ==
    /\ FragmentStream(ReceivedLines) = <<"u0", "t1", "t0">>
    /\ started_emitted = <<1, 0>>

\* A data line whose payload is neither the sentinel nor a delta
\* (ai_client.rs:379-390)
Malformed(line) ==
    /\ StartsWith(line, <<"P">>)
    /\ Tail(line) # <<"D">>
    /\ ~ParsesAsDelta(Tail(line))

(***************************************************************************)
(* C15.  The visible content, the tool-call accumulators and the           *)
(* Visible/Thinking state are at every moment those of the received lines  *)
(* with the malformed data lines left out, and a returned message is the   *)
(* message of those lines: a malformed line changes nothing, ends nothing  *)
(* and the lines after it are processed.                                   *)
(***************************************************************************)
C15_MalformedLineSkipped ==
    LET st == ProcessLines(AggStart,
                           SelectSeq(ReceivedLines, LAMBDA l : ~Malformed(l)))
    IN  /\ full_content = st.full_content
        /\ accumulated_tool_calls = st.calls
        /\ is_thinking = st.is_thinking
        /\ st.result # NoResult => aggResult = st.result
        /\ aggResult.kind = "ok" =>
                aggResult = AssistantMessage(st.full_content, st.calls)

\* a malformed line arrived in the Thinking state; the end marker and the
\* visible text after it were processed and the turn was returned
C15_Witness ==
    /\ Len(ReceivedLines) = 3
    /\ Malformed(ReceivedLines[2])
    /\ thinking_emitted = <<"a">>
    /\ aggResult = AssistantMessage(<<"a">>, <<>>)

(***************************************************************************)
(* C16.  When the body ends and no sentinel was processed, the function    *)
(* returns Ok with the content and the tool calls accumulated from every   *)
(* event received: nothing accumulated is missing from the message.        *)
(***************************************************************************)
C16_PartialTurnAtStreamEnd ==
    aggResult.kind = "ok" /\ FirstSentinel(ReceivedLines) = 0 =>
        /\ fed = Len(stream)
        /\ aggResult = Accumulated(ReceivedLines)
        /\ aggResult = AssistantMessage(full_content, accumulated_tool_calls)

\* the body ended without a sentinel, after content and a tool call
C16_Witness ==
    /\ aggResult.kind = "ok"
    /\ FirstSentinel(ReceivedLines) = 0
    /\ fed = Len(stream)
    /\ aggResult.content.some
    /\ aggResult.tool_calls.some

(***************************************************************************)
(* C17.  When the approval of a turn's tool calls is not given (false was  *)
(* delivered or the channel was closed), the step appends to the           *)
(* conversation, for each tool call of the turn and in their order, one    *)
(* tool-role message with the call's id saying the action was rejected,    *)
(* and goes to the head of the loop, whose next step is a dispatch unless  *)
(* the ceiling is exceeded; stream_chat does not return an error.          *)
(***************************************************************************)
C17_RejectionIsAnsweredPerCall ==
    /\ [][(chatPc = "await_approval" /\ chatPc' # "await_approval"
              /\ ~(delivered'.some /\ delivered'.v))
           => LET calls == api_messages[Len(api_messages)].tool_calls
              IN  /\ chatPc' = "loop"
                  /\ Len(api_messages') = Len(api_messages) + Len(calls)
                  /\ SubSeq(api_messages', 1, Len(api_messages)) = api_messages
                  /\ \A k \in 1..Len(calls) :
                        LET m == api_messages'[Len(api_messages) + k]
                        IN  /\ m.role = "tool"
                            /\ m.tool_call_id = calls[k].id
                            /\ m.content = "rejected"]_vars
    /\ [][(chatPc = "loop" /\ chatPc' # "loop")
           => \/ chatPc' = "dispatch"
              \/ chatPc' = "finish" /\ current_iteration' > MAX_ITERATIONS]_vars

\* two tool calls were rejected and the model was dispatched again
C17_Witness ==
    /\ chatPc = "await_approval"
    /\ dispatches = 2
    /\ Len(api_messages) = 5
    /\ api_messages[2].tool_calls # <<>>
    /\ api_messages[3].content = "rejected" /\ api_messages[3].tool_call_id = [turn |-> 1, k |-> 1]
    /\ api_messages[4].content = "rejected" /\ api_messages[4].tool_call_id = [turn |-> 1, k |-> 2]

\* The messages after place i answer the tool calls of message i: one
\* tool-role message per call, with the call's id, in the order of the calls,
\* and no further tool-role message.
AnsweredAt(i) ==
    LET calls == api_messages[i].tool_calls
        n     == Len(calls)
    IN  /\ i + n <= Len(api_messages)
        /\ \A k \in 1..n :
              /\ api_messages[i + k].role = "tool"
              /\ api_messages[i + k].tool_call_id = calls[k].id
        /\ i + n < Len(api_messages) => api_messages[i + n + 1].role # "tool"

(***************************************************************************)
(* C18.  At every dispatch each assistant message with tool calls in the   *)
(* conversation is followed by exactly one tool-role message per call,     *)
(* with that call's id, in the order of the calls, whether the call        *)
(* succeeded, failed, matched no tool or was rejected.                     *)
(***************************************************************************)
C18_EveryCallAnsweredAtDispatch ==
    chatPc = "dispatch" =>
        \A i \in 1..Len(api_messages) :
            api_messages[i].tool_calls # <<>> => AnsweredAt(i)

\* at the third dispatch: a turn whose two calls failed and matched no tool,
\* then a turn whose two calls were rejected
C18_Witness ==
    /\ chatPc = "dispatch"
    /\ Len(api_messages) = 7
    /\ api_messages[3].content = "error"
    /\ api_messages[4].content = "not_found"
    /\ api_messages[6].content = "rejected"
    /\ api_messages[7].content = "rejected"

(***************************************************************************)
(* C19.  Running a tool call never ends stream_chat: whether the call      *)
(* succeeded, failed or matched no tool, the step appends one tool-role    *)
(* message for that call whose content is the result or the error text     *)
(* ("Error: Tool not found" exactly when no tool was invoked), and goes on *)
(* to the next call or, after the last one, to the head of the loop.       *)
(***************************************************************************)
C19_ToolFailureBecomesContent ==
    [][chatPc = "tools" /\ (chatPc' # chatPc \/ tool_idx' # tool_idx)
       => /\ IF tool_idx < tool_calls
             THEN chatPc' = "tools" /\ tool_idx' = tool_idx + 1
             ELSE chatPc' = "loop"
          /\ Len(api_messages') = Len(api_messages) + 1
          /\ LET m == api_messages'[Len(api_messages')]
             IN  /\ m.role = "tool"
                 /\ m.tool_call_id = [turn |-> current_iteration, k |-> tool_idx]
                 /\ m.content \in {"result", "error", "not_found"}
                 /\ m.content = "not_found" <=> invoked' = invoked]_vars

\* the first call of a turn failed, the second matched no tool, and the
\* model was dispatched again
C19_Witness ==
    /\ chatPc = "dispatch"
    /\ dispatches = 1
    /\ Len(api_messages) = 4
    /\ api_messages[3].content = "error"
    /\ api_messages[4].content = "not_found"

C21_StopAbortsTheRun ==
    /\ [][stopped => UNCHANGED <<chatPc, current_iteration, dispatches,
                                  invoked_total, validation>>]_vars
    /\ [](stopped /\ outer = "returned" => stream_result = "cancelled")

(***************************************************************************)
(* C22.  When the 30 s of the validation run out, the run stops waiting    *)
(* and goes on as after a clean validation: the step appends nothing to    *)
(* the conversation, the validation holds neither the BSLClient mutex nor  *)
(* the socket mutex afterwards, the only way on is the end of the loop,    *)
(* and the task that returned has emitted chat-done and returned Ok.       *)
(***************************************************************************)
C22_TimeoutEndsTheTurnClean ==
    /\ [][(validation # "timeout" /\ validation' = "timeout")
            => /\ chatPc' = "finish"
               /\ api_messages' = api_messages
               /\ \A t \in Tasks : cmd[t] = "validate"
                       => client_lock' # t /\ ws_lock' # t /\ pc'[t] = "done"]_vars
    /\ [](validation = "timeout"
            => /\ chatPc \in {"finish", "returned_ok"}
               /\ \A t \in Tasks : cmd[t] # "validate"
               /\ api_messages[Len(api_messages)].role = "assistant"
               /\ "bsl-validation-result" \notin emitted
               /\ chatPc = "returned_ok" => "chat-done" \in emitted)

\* the run returned Ok after a validation that timed out while another
\* command was at work on the Symbol Service
C22_Witness ==
    /\ validation = "timeout"
    /\ chatPc = "returned_ok"
    /\ "chat-done" \in emitted
    /\ client_lock # 0

(***************************************************************************)
(* C23.  When connect or analyze_code fails during the validation of a     *)
(* turn's code blocks, a warning has been emitted into the visible         *)
(* transcript by the time the validation has ended.                         *)
(***************************************************************************)
C23_FailureIsWarned ==
    validation = "failed" => "chat-chunk: warning" \in emitted

\* The configuration the settings hold for a server id, NoConfig when none
SettingFor(settings, id) ==
    IF \E i \in 1..Len(settings) : settings[i].id = id
    THEN settings[CHOOSE i \in 1..Len(settings) : settings[i].id = id]
    ELSE NoConfig

(***************************************************************************)
(* C24.  In a step of McpManager::reconfigure, the entry of an enabled     *)
(* server whose stored configuration equals the new one and whose session  *)
(* is alive stays the same entry (same session); an entry that is new or   *)
(* carries another session afterwards had no predecessor, or a predecessor *)
(* with another configuration, or a dead one; and every entry held         *)
(* afterwards carries the new, enabled configuration of its server.        *)
(***************************************************************************)
C24_ReconfigureRestartsOnlyWhatChanged ==
    [][mcp_op' = "reconfigure"
        => \A id \in ServerIds :
             LET old == sessions[id]
                 new == sessions'[id]
                 cfg == SettingFor(new_settings', id)
                 unchanged == /\ old.present
                              /\ cfg.enabled
                              /\ old.config = cfg
                              /\ IsAlive(old, children, handler_alive)
             IN  /\ unchanged => new = old
                 /\ (new.present /\ new # old) => ~unchanged
                 /\ new.present => (new.config = cfg /\ cfg.enabled)]_vars

\* a reconfigure has kept the live session of one server and replaced the
\* session of the other, whose configuration had changed
C24_Witness ==
    /\ mcp_op = "reconfigure"
    /\ Len(new_settings) = 2
    /\ sessions["srv1"].present
    /\ sessions["srv1"].session = 1
    /\ sessions["srv1"].session \in children
    /\ sessions["bsl-ls"].present
    /\ sessions["bsl-ls"].session = 3
    /\ sessions["bsl-ls"].config.rev = "r2"

\* The server at position i of all_configs lists a tool of the called name
Offers(i) == FindTool(offers[all_configs[i].id], tool_name) # 0

C26_NoCollapsedReplacement ==
    patched_text # NotReturned =>
        /\ TextLength(original_text) > TrivialSize
              => 2 * TextLength(patched_text) >= TextLength(original_text)
        /\ (/\ TextLength(original_text) > TrivialSize
            /\ 2 * TextLength(Splice(original_text, orig_range, ai_text, ai_range))
                  < TextLength(original_text))
              => patched_text = original_text

\* the replacement of a long symbol by a one-line one was rejected
C26_Witness ==
    /\ patched_text = original_text
    /\ TextLength(original_text) > TrivialSize
    /\ 2 * TextLength(Splice(original_text, orig_range, ai_text, ai_range))
          < TextLength(original_text)

\* The indices that appear in a fragment stream, a fragment without an
\* index counting for index 0
Appeared(frags) == { UnwrapOr0(ToolFrag(frags[k]).index) : k \in 1..Len(frags) }

(***************************************************************************)
(* C27.  The tool calls of the returned turn are one per index that        *)
(* appeared in a fragment of the stream: every such index has its          *)
(* accumulator, and no accumulator stands at an index that no fragment     *)
(* carried.                                                                *)
(***************************************************************************)
C27_OneAccumulatorPerAppearedIndex ==
    aggResult.kind = "ok" =>
        LET appeared == Appeared(FragmentStream(ReceivedLines))
        IN  /\ \A i \in appeared : i < Len(ReturnedCalls)
            /\ \A i \in 0..(Len(ReturnedCalls) - 1) : i \in appeared

\* An HTTP 500 answer or a failure of the transport
Retriable(answer) ==
    \/ answer.kind = "response" /\ answer.status = 500
    \/ answer.kind # "response"

(***************************************************************************)
(* C28.  The request is sent at most 3 times; a send is followed by        *)
(* another only after an HTTP 500 answer or a transport failure and a      *)
(* sleep of the fixed delay; a success ends the loop with the response,    *)
(* any other status ends it with an error at once, and the third failed    *)
(* attempt ends it with an error.                                          *)
(***************************************************************************)
C28_AtMostThreeSends ==
    LET n == Len(answers)
        sleeps == IF retry_pc = "send" THEN n ELSE n - 1
    IN  /\ n <= 3
        /\ attempt = n
        /\ \A i \in 1..(n - 1) : Retriable(answers[i])
        /\ n > 0 => /\ slept_s = RETRY_DELAY_S * sleeps
                    /\ retry_pc = "response" <=> IsSuccess(answers[n])
                    /\ (~IsSuccess(answers[n]) /\ ~Retriable(answers[n]))
                          => retry_pc = "failed" /\ request_error = "API error"
                    /\ (n = 3 /\ ~IsSuccess(answers[n]))
                          => retry_pc = "failed" /\ request_error # "none"
                    /\ (n < 3 /\ Retriable(answers[n])) => retry_pc \in {"sleep", "send"}
        /\ retry_pc = "send" => request_error = "none"

\* the third attempt failed after a 500 and a transport failure
C28_Witness ==
    /\ Len(answers) = 3
    /\ answers[1] = Answer("response", 500)
    /\ answers[2].kind = "timeout"
    /\ answers[3] = Answer("response", 500)
    /\ retry_pc = "failed"
    /\ slept_s = 4

\* The ways the wait of send_request ends (bsl_client.rs:417-434, 444-445)
WaitEnds == {"response", "error", "closed", "timeout"}

(***************************************************************************)
(* C29.  A message-wait tick that passes without a message leaves          *)
(* send_request waiting; the timeout error is returned only when the       *)
(* request budget, which is several ticks long, is used up; the wait       *)
(* always ends, and it ends in exactly one way: with the result or the LSP *)
(* error of the response, a transport error, the close of the connection,  *)
(* or the timeout.                                                         *)
(***************************************************************************)
C29_WaitsOutTheWholeBudget ==
    /\ request_timeout >= 2 * MESSAGE_WAIT_S
    /\ [][\A t \in Tasks :
            /\ (pc[t] = "sr_wait" /\ pc'[t] = "sr_wait"
                    /\ loc'[t].elapsed = loc[t].elapsed + MESSAGE_WAIT_S)
                  => loc[t].elapsed < request_timeout
            /\ (pc[t] = "sr_wait" /\ pc'[t] = "sr_ret" /\ loc'[t].cause = "timeout")
                  => loc[t].elapsed >= request_timeout
            /\ (pc[t] = "sr_wait" /\ loc[t].elapsed < request_timeout
                    /\ loc'[t].elapsed # loc[t].elapsed)
                  => pc'[t] \in {"sr_wait", "sr_reply"} \/ loc'[t].cause = "response"
            /\ (pc[t] \in {"sr_wait", "sr_reply"} /\ pc'[t] \notin {"sr_wait", "sr_reply"})
                  => pc'[t] = "sr_ret" /\ loc'[t].cause \in WaitEnds]_vars
    /\ \A t \in Tasks : pc[t] = "sr_wait" ~> pc[t] = "sr_ret"

\* the wait went through two ticks without a message and then got the
\* result of its request
C29_Witness ==
    \E t \in Tasks :
        /\ pc[t] = "sr_ret"
        /\ loc[t].cause = "response"
        /\ loc[t].sr_ok
        /\ loc[t].elapsed = 2 * MESSAGE_WAIT_S

(***************************************************************************)
(* C30.  With several requests in flight at once on one stdio MCP session, *)
(* each caller receives the result or error of the response line whose id  *)
(* equals its own request id, every response is delivered to at most one   *)
(* caller, and a response with an unknown or already answered id is        *)
(* dropped without effect: what a call of request() returns from a         *)
(* response is the result of a line that carried its id; no line read      *)
(* reaches two callers and no channel gets two lines; and a turn of the    *)
(* reader on a line whose id was never drawn, or was answered by an        *)
(* earlier line, leaves the map, the channels and every caller as they     *)
(* were.                                                                   *)
(***************************************************************************)
FromResponse(value) == value.kind = "ok" \/ (value.kind = "err" /\ value.body = "e")

AnsweredBy(c, i) ==
    /\ FromResponse(rpc_result[c])
    /\ routed[i].to = rpc_id[c]

\* A step of the reader task on a line: every step of a caller moves its
\* rpc_pc, and the end of the reader task clears reader_alive
ReaderTurn == rpc_pc' = rpc_pc /\ reader_alive' = reader_alive

C30_ResponsesReachTheirCallers ==
    [][ /\ \A c \in Callers :
             FromResponse(rpc_result'[c]) =>
                 \E i \in 1..Len(routed') :
                     /\ routed'[i].to = rpc_id'[c]
                     /\ routed'[i].line.kind = "response"
                     /\ routed'[i].line.has_id
                     /\ routed'[i].line.id = rpc_id'[c]
                     /\ rpc_result'[c] = ResultOf(routed'[i].line)
        /\ \A i \in 1..Len(routed') :
             /\ Cardinality({c \in Callers :
                                FromResponse(rpc_result'[c]) /\ routed'[i].to = rpc_id'[c]}) <= 1
             /\ routed'[i].to # 0 =>
                    /\ routed'[i].line.id = routed'[i].to
                    /\ \A j \in 1..Len(routed') : j # i => routed'[j].to # routed'[i].to
        /\ (/\ ReaderTurn
             /\ last_line'.kind = "response"
             /\ last_line'.has_id
             /\ \/ last_line'.id >= next_id
                \/ \E i \in 1..Len(routed) : routed[i].to = last_line'.id)
            => UNCHANGED <<next_id, pending_requests, channel, rpc_pc, rpc_id, rpc_result,
                           writer_alive, reader_alive, routed>>
      ]_vars

\* Two calls were in flight together, the second was answered first, each
\* got the line of its own id, and a second line for the first id was read
C30_Witness ==
    /\ Len(routed) = 2
    /\ routed[1].to = 2 /\ routed[1].line.error
    /\ routed[2].to = 1 /\ ~routed[2].line.error
    /\ last_line.has_id /\ last_line.id = 1 /\ last_line.error
    /\ \E c, d \in Callers :
          /\ rpc_id[c] = 1 /\ rpc_pc[c] = "done" /\ AnsweredBy(c, 2)
          /\ rpc_result[c] = [kind |-> "ok", body |-> "a"]
          /\ rpc_id[d] = 2 /\ rpc_pc[d] = "done" /\ AnsweredBy(d, 1)
          /\ rpc_result[d] = [kind |-> "err", body |-> "e"]

(***************************************************************************)
(* C31.  After any sequence of save_snapshot and pop_snapshot, each window *)
(* holds at most 10 snapshots (the oldest is discarded when an 11th is     *)
(* saved), pop_snapshot returns the most recently saved snapshot of that   *)
(* window that was not yet popped or discarded (None when there is none),  *)
(* and neither operation changes the snapshots of another window.          *)
(***************************************************************************)
\* The last n elements of a sequence
Newest(seq, n) == SubSeq(seq, Len(seq) - n + 1, Len(seq))

C31_TenNewestPerWindow ==
    [][ \A h \in Hwnds :
          LET before == SNAPSHOTS[h].list
              after == SNAPSHOTS'[h].list
          IN  /\ Len(after) <= 10
              /\ after = Newest(saved'[h], Len(after))
              /\ hist_op'.hwnd # h => after = before
              /\ (hist_op'.hwnd = h /\ hist_op'.op = "save") =>
                    /\ Len(after) = IF Len(before) = 10 THEN 10 ELSE Len(before) + 1
                    /\ after[Len(after)] = hist_op'.code
              /\ (hist_op'.hwnd = h /\ hist_op'.op = "pop") =>
                    IF before = <<>>
                    THEN ~hist_op'.some /\ after = <<>>
                    ELSE /\ hist_op'.some
                         /\ hist_op'.code = saved[h][Len(saved[h])]
                         /\ after = SubSeq(before, 1, Len(before) - 1)
      ]_vars

\* An 11th snapshot was saved for window 1 while window 2 held one, and the
\* pop that followed returned it
C31_Witness ==
    /\ Len(saved[1]) = 10
    /\ Len(SNAPSHOTS[1].list) = 9
    /\ SNAPSHOTS[2].list # <<>>
    /\ hist_op = [op |-> "pop", hwnd |-> 1, some |-> TRUE, code |-> 12]

(***************************************************************************)
(* C32.  When paste_code_to_configurator is given original_content and the *)
(* current document text differs from it (after trimming), it returns the  *)
(* CONFLICT error, writes nothing to the document and saves no undo        *)
(* snapshot.                                                               *)
(***************************************************************************)
C32_ConflictWritesNothing ==
    [][ \A h \in Hwnds :
          (/\ pastes' = pastes + 1
           /\ paste_op'.cmd = "paste"
           /\ paste_op'.hwnd = h
           /\ paste_op'.original.some
           /\ Trim(document[h]) # Trim(paste_op'.original.v))
          => /\ paste_op'.returned = "CONFLICT"
             /\ document' = document
             /\ SNAPSHOTS' = SNAPSHOTS
      ]_vars

(***************************************************************************)
(* C33.  An approval signal decides only the tool-call round that was      *)
(* awaiting approval when the signal was sent: an approve or reject sent   *)
(* while no approval request is outstanding is not kept to decide a later  *)
(* round of the same run.  Stated on the channel: when a round starts to   *)
(* await its approval, no signal sent earlier is waiting in the channel.   *)
(***************************************************************************)
C33_NoSignalKeptForALaterRound ==
    [][ (chatPc # "await_approval" /\ chatPc' = "await_approval") => rx' = <<>> ]_vars

(***************************************************************************)
(* C34.  approve_tool and reject_tool return the 'No pending tool call'    *)
(* error whenever no chat run is waiting for approval: before the first    *)
(* run, after a run has finished or was cancelled, and while a run is not  *)
(* at an approval request; they return Ok only when a run is suspended on  *)
(* its approval request.                                                   *)
(***************************************************************************)
C34_OkOnlyWhileAwaitingApproval ==
    [][ approve_calls' = approve_calls + 1 =>
          (approve_result' = "Ok" <=> chatPc = "await_approval") ]_vars

(***************************************************************************)
(* C35.  After BSLClient::stop returns, the client is Disconnected         *)
(* whatever its state before: is_connected() is false and no backend       *)
(* process is owned.  Seen where nothing follows stop() before the command *)
(* ends: reconnect_bsl_ls_cmd whose start_server fails right after the     *)
(* stop.                                                                   *)
(***************************************************************************)
C35_StopDisconnects ==
    [][ \A t \in Tasks :
          (pc[t] = "idle" /\ cmd'[t] = "reconnect" /\ pc'[t] = "ret")
          => (~ws' /\ ~server_process') ]_vars

(***************************************************************************)
(* C36.  A BSLClient owns at most one live backend process: start_server   *)
(* is never performed while a previously spawned backend process is still  *)
(* owned, unless that process is stopped first.  reconnect_bsl_ls_cmd      *)
(* stops first and check_bsl_syntax starts only without an owned process;  *)
(* the step left to check is reconfigure taking its start_server branch.   *)
(***************************************************************************)
C36_StartOnlyWithoutOwnedProcess ==
    [][ \A t \in Tasks :
          (pc[t] = "idle" /\ cmd'[t] = "reconfigure" /\ pc'[t] = "connect")
          => ~server_process ]_vars

(***************************************************************************)
(* C37.  The pending-request table of a stdio MCP session holds an entry   *)
(* only for requests still being waited for: once a request has returned   *)
(* or been abandoned (response received, inner timeout, failure to hand    *)
(* the request to the writer, outer McpClient timeout, or cancellation of  *)
(* the calling task), the table holds no entry for its id.                 *)
(***************************************************************************)
C37_NoEntryForAnEndedRequest ==
    \A c \in Callers :
        rpc_pc[c] = "done" => rpc_id[c] \notin DOMAIN pending_requests

(***************************************************************************)
(* C38.  Whichever way a stream_chat run ends (turn done, iteration        *)
(* ceiling, validation timeout, cancellation, or an error of the model     *)
(* call or stream), the status indicator ends cleared: once stream_chat    *)
(* has returned, the last 'chat-status' event is the empty status.         *)
(***************************************************************************)
C38_StatusEndsCleared ==
    outer = "returned" => chat_status = ""

(***************************************************************************)
(* C39.  One analyze_code call sends at most one didClose for its URI and  *)
(* never waits for pushed diagnostics of a document it has already closed, *)
(* also when the pull response carries no `items` array.                   *)
(***************************************************************************)
C39_OneCloseAndNoWaitAfterIt ==
    \A t \in Tasks :
        /\ loc[t].closes <= 1
        /\ pc[t] \in {"push_lock", "push_wait", "push_reply"} => loc[t].closes = 0

\* The content stream of the lines delivered as the content of one delta
OneFragment(lines) == << <<"P">> \o ContentStream(lines) >>

(***************************************************************************)
(* C40.  The division of the model's content into visible text and         *)
(* thinking text does not depend on how the content is cut into delta      *)
(* fragments: when the turn is returned, the visible content, the text of  *)
(* the thinking channel and the machine's state are those the same content *)
(* gives when it arrives in one fragment, so a marker divided between two  *)
(* consecutive fragments is recognised as a whole one is.                  *)
(***************************************************************************)
C40_CutsDoNotChangeTheDivision ==
    aggResult.kind = "ok" =>
        LET whole == ProcessLines(AggStart, OneFragment(ReceivedLines))
        IN  /\ full_content = whole.full_content
            /\ thinking_emitted = whole.thinking
            /\ is_thinking = whole.is_thinking

====
